---- MODULE Spec2Model ----
(***************************************************************************)
(* Room/presence signaling server (src/server.js) and the client-side      *)
(* coordination and negotiation logic of the plaude video rooms.           *)
(***************************************************************************)
EXTENDS Integers, Sequences, FiniteSets, TLC

(***************************************************************************)
(* Bounds of the model.                                                    *)
(***************************************************************************)
NumSockets == 2
NumRooms == 2
NumNames == 2

SocketIdTable == <<"a1", "b2", "c3", "d4">>
RoomIdTable == <<"R1", "R2", "R3", "R4">>
NameTable == <<"Alice", "Bob", "Carol", "Dave">>

\* socket.id values handed out by the signaling channel
Sockets == {SocketIdTable[i] : i \in 1..NumSockets}
\* room ids as generated by the pages
PlainRooms == {RoomIdTable[i] : i \in 1..NumRooms}
Names == {NameTable[i] : i \in 1..NumNames}
\* Socket.IO keeps one namespace of room names and every socket is in the
\* room named by its own id: a client sends a generated room id or its own
\* socket id as roomId.
RoomIdsOf(sock) == PlainRooms \cup {sock}
RoomKeys == PlainRooms \cup Sockets

(***************************************************************************)
(* JavaScript values of message fields: the handlers test truthiness and   *)
(* typeof, so a field is a tagged value.                                   *)
(***************************************************************************)
JsUndefined == [t |-> "undefined", s |-> ""]
JsString(x) == [t |-> "string", s |-> x]
JsNumber(x) == [t |-> "number", s |-> x]
JsObject(x) == [t |-> "object", s |-> x]

Falsy(v) ==
    \/ v.t = "undefined"
    \/ v.t = "string" /\ v.s = ""
    \/ v.t = "number" /\ v.s = "0"

TypeofString(v) == v.t = "string"

\* userName of an event payload that has no userName field
NoName == "<undefined>"

(***************************************************************************)
(* Arrays of users and the rooms object.                                   *)
(***************************************************************************)
User(id, name) == [id |-> id, name |-> name]

\* Array.prototype.findIndex(u => u.id === id); 0 stands for -1
FindIndex(users, id) ==
    IF \E i \in 1..Len(users) : users[i].id = id
    THEN CHOOSE i \in 1..Len(users) :
            users[i].id = id /\ \A j \in 1..(i - 1) : users[j].id # id
    ELSE 0

\* Array.prototype.splice(i, 1)
Splice(users, i) ==
    [j \in 1..(Len(users) - 1) |-> IF j < i THEN users[j] ELSE users[j + 1]]

\* Array.prototype.filter(u => u.id !== id)
RECURSIVE FilterOthers(_, _)
FilterOthers(users, id) ==
    IF users = <<>> THEN <<>>
    ELSE IF Head(users).id = id THEN FilterOthers(Tail(users), id)
         ELSE <<Head(users)>> \o FilterOthers(Tail(users), id)

UserIds(users) == {users[i].id : i \in 1..Len(users)}

\* rooms: the object's keys in insertion order (Object.keys order), each
\* with its record { id, users }
RoomIndex(rs, r) ==
    IF \E i \in 1..Len(rs) : rs[i].id = r
    THEN CHOOSE i \in 1..Len(rs) : rs[i].id = r
    ELSE 0

HasRoom(rs, r) == RoomIndex(rs, r) # 0

RoomUsers(rs, r) == rs[RoomIndex(rs, r)].users

SetRoomUsers(rs, r, us) ==
    [i \in 1..Len(rs) |-> IF rs[i].id = r THEN [id |-> r, users |-> us] ELSE rs[i]]

\* delete rooms[r]
DeleteRoom(rs, r) ==
    LET k == RoomIndex(rs, r)
    IN  [j \in 1..(Len(rs) - 1) |-> IF j < k THEN rs[j] ELSE rs[j + 1]]

RoomKeysOf(rs) == [i \in 1..Len(rs) |-> rs[i].id]

\* the rooms whose users array holds the socket
RoomsOf(rs, sock) == {rs[i].id : i \in {j \in 1..Len(rs) : sock \in UserIds(rs[j].users)}}

\* `${roomId}-${socket.id}`
TrackerKey(roomId, sock) == roomId \o "-" \o sock

(***************************************************************************)
(* Emitted events.  to: the sockets the event is delivered to.             *)
(***************************************************************************)
Event(ev, to, userId, userName, users, roomId, message) ==
    [ev |-> ev, to |-> to, userId |-> userId, userName |-> userName,
     users |-> users, roomId |-> roomId, message |-> message]

\* io.to(room): the sockets that are in the Socket.IO room
InRoom(sio, room) == {s \in Sockets : room \in sio[s]}

\* the catch block of every handler: socket.emit('server-error', ...)
ServerError(S, sock, message) ==
    [S EXCEPT !.out = Append(@, Event("server-error", {sock}, "", NoName, <<>>, "", message))]

(***************************************************************************)
(* The handlers of src/server.js.  S is the server's state               *)
(*   rooms   : the rooms object                                            *)
(*   tracker : the keys of userMediaReadyTracker                           *)
(*   sio     : socket.rooms of every socket (the Socket.IO adapter)        *)
(*   out     : the events the handler has emitted so far, in order         *)
(***************************************************************************)

\* join-room, "Leave all other rooms first": the forEach over socket.rooms
RECURSIVE LeaveOtherRooms(_, _, _)
LeaveOtherRooms(S, sock, todo) ==
    IF todo = {} THEN S
    ELSE LET room == CHOOSE r \in todo : TRUE
             sio1 == [S.sio EXCEPT ![sock] = @ \ {room}]
             idx  == IF HasRoom(S.rooms, room)
                     THEN FindIndex(RoomUsers(S.rooms, room), sock) ELSE 0
             left == Splice(RoomUsers(S.rooms, room), idx)
             S1 == IF room = sock THEN S
                   ELSE IF idx # 0
                   THEN [S EXCEPT
                           !.sio = sio1,
                           !.rooms = SetRoomUsers(S.rooms, room, left),
                           !.out = Append(@, Event("user-left", InRoom(sio1, room),
                                                   sock, NoName, left, room, ""))]
                   ELSE [S EXCEPT !.sio = sio1]
         IN  LeaveOtherRooms(S1, sock, todo \ {room})

\* fault for C9: user-joined sent with socket.to(roomId), which leaves the
\* joiner out
AddToRoom_SocketTo(S, sock, roomId, userName) ==
    LET rs1  == IF HasRoom(S.rooms, roomId) THEN S.rooms
                ELSE Append(S.rooms, [id |-> roomId, users |-> <<>>])
        us   == RoomUsers(rs1, roomId)
        idx  == FindIndex(us, sock)
        us2  == IF idx # 0 THEN [us EXCEPT ![idx] = User(sock, userName)]
                ELSE Append(us, User(sock, userName))
        sio2 == [S.sio EXCEPT ![sock] = @ \cup {roomId}]
    IN  [S EXCEPT
           !.rooms = SetRoomUsers(rs1, roomId, us2),
           !.sio = sio2,
           !.out = @ \o <<Event("user-joined", InRoom(sio2, roomId) \ {sock},
                                sock, userName, us2, roomId, ""),
                          Event("join-success", {sock},
                                sock, userName, us2, roomId, "")>>]

\* join-room, from "Create room if it doesn't exist" to join-success
AddToRoom(S, sock, roomId, userName) ==
    LET rs1  == IF HasRoom(S.rooms, roomId) THEN S.rooms
                ELSE Append(S.rooms, [id |-> roomId, users |-> <<>>])
        us   == RoomUsers(rs1, roomId)
        idx  == FindIndex(us, sock)
        us2  == IF idx # 0 THEN [us EXCEPT ![idx] = User(sock, userName)]
                ELSE Append(us, User(sock, userName))
        sio2 == [S.sio EXCEPT ![sock] = @ \cup {roomId}]
    IN  [S EXCEPT
           !.rooms = SetRoomUsers(rs1, roomId, us2),
           !.sio = sio2,
           !.out = @ \o <<Event("user-joined", InRoom(sio2, roomId),
                                sock, userName, us2, roomId, ""),
                          Event("join-success", {sock},
                                sock, userName, us2, roomId, "")>>]

\* fault for C8: join-room without the userName validation
JoinRoomHandler_NoNameCheck(S, sock, roomId, userName) ==
    IF Falsy(roomId) \/ ~TypeofString(roomId)
    THEN ServerError(S, sock, "Invalid room ID")
    ELSE AddToRoom(LeaveOtherRooms(S, sock, S.sio[sock]), sock, roomId.s, userName.s)

\* socket.on('join-room', ({ roomId, userName }) => ...)
JoinRoomHandler(S, sock, roomId, userName) ==
    IF Falsy(roomId) \/ ~TypeofString(roomId)
    THEN ServerError(S, sock, "Invalid room ID")
    ELSE IF Falsy(userName) \/ ~TypeofString(userName)
    THEN ServerError(S, sock, "Invalid username")
    ELSE AddToRoom(LeaveOtherRooms(S, sock, S.sio[sock]), sock, roomId.s, userName.s)

\* fault for C13: leave-room without "Remove room if empty"
RemoveFromRoom_KeepsEmpty(S, sock, roomId) ==
    LET us   == RoomUsers(S.rooms, roomId)
        idx  == FindIndex(us, sock)
        left == Splice(us, idx)
        sio1 == [S.sio EXCEPT ![sock] = @ \ {roomId}]
    IN  IF idx = 0 THEN S
        ELSE [S EXCEPT
                !.rooms = SetRoomUsers(S.rooms, roomId, left),
                !.sio = sio1,
                !.tracker = @ \ {TrackerKey(roomId, sock)},
                !.out = Append(@, Event("user-left", InRoom(sio1, roomId),
                                        sock, us[idx].name, left, roomId, ""))]

\* leave-room, "Find and remove user from room"
RemoveFromRoom(S, sock, roomId) ==
    LET us   == RoomUsers(S.rooms, roomId)
        idx  == FindIndex(us, sock)
        left == Splice(us, idx)
        sio1 == [S.sio EXCEPT ![sock] = @ \ {roomId}]
    IN  IF idx = 0 THEN S
        ELSE [S EXCEPT
                !.rooms = IF Len(left) = 0 THEN DeleteRoom(S.rooms, roomId)
                          ELSE SetRoomUsers(S.rooms, roomId, left),
                !.sio = sio1,
                !.tracker = @ \ {TrackerKey(roomId, sock)},
                !.out = Append(@, Event("user-left", InRoom(sio1, roomId),
                                        sock, us[idx].name, left, roomId, ""))]

\* fault for C11: leave-room that reports a missing room as an error
LeaveRoomHandler_RoomRequired(S, sock, roomId, userName) ==
    IF Falsy(roomId) \/ ~TypeofString(roomId)
    THEN ServerError(S, sock, "Invalid room ID")
    ELSE IF Falsy(userName) \/ ~TypeofString(userName)
    THEN ServerError(S, sock, "Invalid username")
    ELSE IF ~HasRoom(S.rooms, roomId.s)
    THEN ServerError(S, sock, "Room " \o roomId.s \o " not found")
    ELSE RemoveFromRoom(S, sock, roomId.s)

\* socket.on('leave-room', ({ roomId, userName }) => ...)
LeaveRoomHandler(S, sock, roomId, userName) ==
    IF Falsy(roomId) \/ ~TypeofString(roomId)
    THEN ServerError(S, sock, "Invalid room ID")
    ELSE IF Falsy(userName) \/ ~TypeofString(userName)
    THEN ServerError(S, sock, "Invalid username")
    ELSE IF ~HasRoom(S.rooms, roomId.s) THEN S
    ELSE RemoveFromRoom(S, sock, roomId.s)

\* fault for C7: disconnect without userMediaReadyTracker.delete
DisconnectFromRoom_KeepsTracker(S, sock, roomId) ==
    LET us   == RoomUsers(S.rooms, roomId)
        idx  == FindIndex(us, sock)
        left == Splice(us, idx)
    IN  IF idx = 0 THEN S
        ELSE [S EXCEPT
                !.rooms = IF Len(left) = 0 THEN DeleteRoom(S.rooms, roomId)
                          ELSE SetRoomUsers(S.rooms, roomId, left),
                !.out = Append(@, Event("user-left", InRoom(S.sio, roomId),
                                        sock, us[idx].name, left, roomId, ""))]

\* disconnect: the body of Object.keys(rooms).forEach for one roomId
DisconnectFromRoom(S, sock, roomId) ==
    LET us   == RoomUsers(S.rooms, roomId)
        idx  == FindIndex(us, sock)
        left == Splice(us, idx)
    IN  IF idx = 0 THEN S
        ELSE [S EXCEPT
                !.rooms = IF Len(left) = 0 THEN DeleteRoom(S.rooms, roomId)
                          ELSE SetRoomUsers(S.rooms, roomId, left),
                !.tracker = @ \ {TrackerKey(roomId, sock)},
                !.out = Append(@, Event("user-left", InRoom(S.sio, roomId),
                                        sock, us[idx].name, left, roomId, ""))]

RECURSIVE DisconnectLoop(_, _, _)
DisconnectLoop(S, sock, keys) ==
    IF keys = <<>> THEN S
    ELSE DisconnectLoop(DisconnectFromRoom(S, sock, Head(keys)), sock, Tail(keys))

\* Socket.IO takes a closing socket out of all its rooms before it fires
\* 'disconnect'
SocketClosed(S, sock) == [S EXCEPT !.sio = [@ EXCEPT ![sock] = {}]]

\* socket.on('disconnect', (reason) => ...)
DisconnectHandler(S, sock) ==
    LET S0 == SocketClosed(S, sock)
    IN  DisconnectLoop(S0, sock, RoomKeysOf(S0.rooms))

\* socket.emit('room-users-response', { roomId, users })
RoomUsersResponse(S, sock, roomId, users) ==
    [S EXCEPT !.out = Append(@, Event("room-users-response", {sock}, "", NoName,
                                      users, roomId, ""))]

\* fault for C14: get-room-users that answers with the whole member list
GetRoomUsersHandler_Unfiltered(S, sock, roomId) ==
    IF Falsy(roomId) \/ ~TypeofString(roomId)
    THEN ServerError(S, sock, "Invalid room ID")
    ELSE IF ~HasRoom(S.rooms, roomId.s)
    THEN RoomUsersResponse(S, sock, roomId.s, <<>>)
    ELSE IF FindIndex(RoomUsers(S.rooms, roomId.s), sock) = 0
    THEN ServerError(S, sock, "User " \o sock \o " not found in room " \o roomId.s)
    ELSE RoomUsersResponse(S, sock, roomId.s, RoomUsers(S.rooms, roomId.s))

\* socket.on('get-room-users', ({ roomId }) => ...)
GetRoomUsersHandler(S, sock, roomId) ==
    IF Falsy(roomId) \/ ~TypeofString(roomId)
    THEN ServerError(S, sock, "Invalid room ID")
    ELSE IF ~HasRoom(S.rooms, roomId.s)
    THEN RoomUsersResponse(S, sock, roomId.s, <<>>)
    ELSE IF FindIndex(RoomUsers(S.rooms, roomId.s), sock) = 0
    THEN ServerError(S, sock, "User " \o sock \o " not found in room " \o roomId.s)
    ELSE RoomUsersResponse(S, sock, roomId.s,
                           FilterOthers(RoomUsers(S.rooms, roomId.s), sock))

\* getUserName(userId, roomId)
GetUserName(rs, userId, roomId) ==
    IF HasRoom(rs, roomId)
    THEN LET idx == FindIndex(RoomUsers(rs, roomId), userId)
         IN  IF idx # 0 THEN RoomUsers(rs, roomId)[idx].name ELSE "Unknown User"
    ELSE "Unknown User"

\* user-media-ready, after the tracker check: mark, notify, tell the sender
\* to initiate
RECURSIVE TellToInitiate(_, _, _)
TellToInitiate(S, sock, others) ==
    IF others = <<>> THEN S
    ELSE TellToInitiate(
            [S EXCEPT !.out = Append(@, Event("initiate-connection", {sock},
                                Head(others).id, Head(others).name, <<>>, "", ""))],
            sock, Tail(others))

AnnounceMediaReady(S, sock, userId, roomId) ==
    LET us   == RoomUsers(S.rooms, roomId)
        me   == us[FindIndex(us, sock)]
        note(to) == Event("user-media-ready", to, sock, me.name, <<>>, roomId, "")
        S1   == [S EXCEPT !.tracker = @ \cup {TrackerKey(roomId, sock)}]
        S2   == IF ~Falsy(userId)
                THEN IF FindIndex(us, userId.s) # 0
                     THEN [S1 EXCEPT !.out = Append(@, note(InRoom(S.sio, userId.s)))]
                     ELSE S1
                ELSE [S1 EXCEPT !.out = Append(@, note(InRoom(S.sio, roomId) \ {sock}))]
    IN  TellToInitiate(S2, sock, FilterOthers(us, sock))

\* fault for C17: user-media-ready without the "already processed" check
UserMediaReadyHandler_NoTrackerCheck(S, sock, userId, roomId) ==
    IF Falsy(roomId) THEN ServerError(S, sock, "Invalid room ID")
    ELSE IF ~HasRoom(S.rooms, roomId.s)
    THEN ServerError(S, sock, "Room " \o roomId.s \o " not found")
    ELSE IF FindIndex(RoomUsers(S.rooms, roomId.s), sock) = 0
    THEN ServerError(S, sock, "User " \o sock \o " not found in room " \o roomId.s)
    ELSE AnnounceMediaReady(S, sock, userId, roomId.s)

\* socket.on('user-media-ready', ({ userId, roomId }) => ...)
UserMediaReadyHandler(S, sock, userId, roomId) ==
    IF Falsy(roomId) THEN ServerError(S, sock, "Invalid room ID")
    ELSE IF ~HasRoom(S.rooms, roomId.s)
    THEN ServerError(S, sock, "Room " \o roomId.s \o " not found")
    ELSE IF FindIndex(RoomUsers(S.rooms, roomId.s), sock) = 0
    THEN ServerError(S, sock, "User " \o sock \o " not found in room " \o roomId.s)
    ELSE IF TrackerKey(roomId.s, sock) \in S.tracker THEN S
    ELSE AnnounceMediaReady(S, sock, userId, roomId.s)

\* io.to(receiverId).emit(ev, { senderId: socket.id, senderName, ... })
Forward(S, ev, sock, receiverId, senderName, roomId) ==
    [S EXCEPT !.out = Append(@, Event(ev, InRoom(S.sio, receiverId),
                                      sock, senderName, <<>>, roomId, ""))]

\* socket.on('initiate-connection', ({ targetUserId, roomId }) => ...)
InitiateConnectionHandler(S, sock, targetUserId, roomId) ==
    IF Falsy(roomId) \/ Falsy(targetUserId)
    THEN ServerError(S, sock, "Invalid connection initiation data")
    ELSE IF ~HasRoom(S.rooms, roomId.s)
    THEN ServerError(S, sock, "Room " \o roomId.s \o " not found")
    ELSE IF FindIndex(RoomUsers(S.rooms, roomId.s), sock) = 0
    THEN ServerError(S, sock, "Sender " \o sock \o " not found in room " \o roomId.s)
    ELSE IF FindIndex(RoomUsers(S.rooms, roomId.s), targetUserId.s) = 0
    THEN ServerError(S, sock, "Target user " \o targetUserId.s
                                 \o " not found in room " \o roomId.s)
    ELSE Forward(S, "initiate-connection", sock, targetUserId.s,
                 GetUserName(S.rooms, sock, roomId.s), roomId.s)

\* socket.on('webrtc-offer', ({ offer, receiverId, senderName, roomId }) => ...)
WebrtcOfferHandler(S, sock, offer, receiverId, senderName, roomId) ==
    IF Falsy(roomId) THEN ServerError(S, sock, "Missing roomId in WebRTC offer")
    ELSE IF Falsy(receiverId)
    THEN ServerError(S, sock, "Missing receiverId in WebRTC offer")
    ELSE IF Falsy(offer)
    THEN ServerError(S, sock, "Missing offer data in WebRTC offer")
    ELSE IF ~HasRoom(S.rooms, roomId.s)
    THEN ServerError(S, sock, "Room " \o roomId.s \o " not found")
    ELSE IF receiverId.s \notin UserIds(RoomUsers(S.rooms, roomId.s))
    THEN ServerError(S, sock, "Receiver " \o receiverId.s
                                 \o " is not in room " \o roomId.s)
    ELSE Forward(S, "webrtc-offer", sock, receiverId.s, senderName.s, roomId.s)

\* socket.on('webrtc-answer', ({ answer, receiverId, senderName, roomId }) => ...)
WebrtcAnswerHandler(S, sock, answer, receiverId, senderName, roomId) ==
    IF Falsy(roomId) \/ Falsy(receiverId) \/ Falsy(answer)
    THEN ServerError(S, sock, "Invalid WebRTC answer data")
    ELSE Forward(S, "webrtc-answer", sock, receiverId.s, senderName.s, roomId.s)

\* socket.on('webrtc-ice-candidate', ({ candidate, receiverId, roomId }) => ...)
WebrtcIceCandidateHandler(S, sock, candidate, receiverId, roomId) ==
    IF Falsy(roomId) \/ Falsy(receiverId) \/ Falsy(candidate)
    THEN ServerError(S, sock, "Invalid ICE candidate data")
    ELSE Forward(S, "webrtc-ice-candidate", sock, receiverId.s,
                 GetUserName(S.rooms, sock, roomId.s), roomId.s)

\* socket.on('webrtc-renegotiate', ({ receiverId, roomId }) => ...)
WebrtcRenegotiateHandler(S, sock, receiverId, roomId) ==
    IF Falsy(roomId) \/ Falsy(receiverId)
    THEN ServerError(S, sock, "Invalid renegotiation data")
    ELSE Forward(S, "webrtc-renegotiate", sock, receiverId.s,
                 GetUserName(S.rooms, sock, roomId.s), roomId.s)

\* the payload object a client emits with an event, or undefined
Payload(fields) == [t |-> "object", s |-> "", fields |-> fields]

\* the listener's parameter list destructures the payload, before the try
\* block is entered: of undefined it throws a TypeError
Destructured(S, payload, handled) ==
    IF payload = JsUndefined THEN [S EXCEPT !.thrown = "TypeError"] ELSE handled

\* socket.on('join-room', ({ roomId, userName }) => { try ... })
JoinRoomListener(S, sock, payload) ==
    Destructured(S, payload,
                 JoinRoomHandler(S, sock, payload.fields[1], payload.fields[2]))

\* socket.on('webrtc-offer', ({ offer, receiverId, senderName, roomId }) => { try ... })
WebrtcOfferListener(S, sock, payload) ==
    Destructured(S, payload,
                 WebrtcOfferHandler(S, sock, payload.fields[1], payload.fields[2],
                                    payload.fields[3], payload.fields[4]))

(***************************************************************************)
(* The server as a state machine: one action per event a socket delivers.  *)
(***************************************************************************)
VARIABLES
    rooms,                  \* const rooms = {}
    userMediaReadyTracker,  \* the keys of the Map userMediaReadyTracker
    socketRooms,            \* socket.rooms of every socket
    status,                 \* "new", "connected" or "closed", per socket id
    out,                    \* the events the last handler emitted, in order
    lastOp,                 \* the event the last handler received
    uncaught,               \* the exception that escaped the last handler, or ""
    \* VideoRoom.tsx, per client
    isLocalMediaReadyRef,   \* isLocalMediaReadyRef.current && localStreamRef.current
    pendingEventListeners,  \* the users a connectWhenReady listener waits for
    timeouts,               \* the setTimeout callbacks not yet run
    sent,                   \* the messages the last client step emitted, in order
    hasAnnouncedReady,      \* the state hasAnnouncedReady of the component
    \* webrtc.ts, per client
    peerConnections,        \* videoContext.peerConnections, by remote user id
    wire,                   \* offers and answers in flight, per direction
    resendTimers,           \* the offers createOffer will send again
    offersMade,             \* the number of offers a client has created
    glared,                 \* the client got an offer while it had one pending
    \* src/lib/webrtc.ts, per client
    localStream,            \* videoContext.localStream is a stream
    signalingEvents,        \* setupSignalingEvents registered the listeners
    received,               \* the emitted events the clients handled, and the
                            \* number of offers each handling sent
    \* the media of one client of webrtc.ts (src/unnamed/part_000)
    media,                  \* streams, tracks, toggles, heartbeats and timers
    \* utils/socket.ts
    singleton               \* socket, connectPromise, the attempts and the calls

serverVars ==
    <<rooms, userMediaReadyTracker, socketRooms, status, out, lastOp, uncaught>>
coordVars ==
    <<isLocalMediaReadyRef, pendingEventListeners, timeouts, sent, hasAnnouncedReady>>
rtcVars == <<peerConnections, wire, resendTimers, offersMade, glared>>

ctxVars == <<localStream, signalingEvents, received>>

vars == <<serverVars, coordVars, rtcVars, ctxVars, media, singleton>>

ServerState ==
    [rooms |-> rooms, tracker |-> userMediaReadyTracker, sio |-> socketRooms,
     out |-> <<>>, thrown |-> ""]

Op(op, sock, roomId, userName, target, payload) ==
    [op |-> op, sock |-> sock, roomId |-> roomId, userName |-> userName,
     target |-> target, payload |-> payload]

NoOp == Op("none", "", JsUndefined, JsUndefined, JsUndefined, JsUndefined)

\* the handler ran to completion: S is the state it leaves
Handled(S, op) ==
    /\ rooms' = S.rooms
    /\ userMediaReadyTracker' = S.tracker
    /\ socketRooms' = S.sio
    /\ out' = S.out
    /\ lastOp' = op
    /\ uncaught' = S.thrown
    /\ received' = {}
    /\ UNCHANGED <<coordVars, rtcVars, localStream, signalingEvents, media, singleton>>

\* the field values the clients send
ValidRoomIds(sock) == {JsString(k) : k \in RoomIdsOf(sock)}
ValidNames == {JsString(n) : n \in Names}
InvalidFields == {JsUndefined, JsString(""), JsNumber("42")}
SomeRoomId == JsString(RoomIdTable[1])
SomeName == JsString(NameTable[1])
\* the first generated room id, or the socket's own id
FirstRoomIds(sock) == {SomeRoomId, JsString(sock)}

InvalidInputs == (InvalidFields \X {SomeName}) \cup ({SomeRoomId} \X InvalidFields)
JoinInputs(sock) == (ValidRoomIds(sock) \X ValidNames) \cup InvalidInputs
LeaveInputs(sock) ==
    (ValidRoomIds(sock) \X {SomeName})
        \cup {<<JsUndefined, SomeName>>, <<SomeRoomId, JsUndefined>>}
ReadyInputs(sock) ==
    ({JsUndefined} \cup {JsString(s) : s \in Sockets \ {sock}})
        \X ({JsUndefined} \cup FirstRoomIds(sock))
RelayRoomIds(sock) == {JsUndefined} \cup FirstRoomIds(sock)
RelayReceiverIds == {JsUndefined} \cup {JsString(s) : s \in Sockets}
BlobInputs == {JsObject("blob"), JsUndefined}

ServerInit ==
    /\ rooms = <<>>
    /\ userMediaReadyTracker = {}
    /\ socketRooms = [s \in Sockets |-> {}]
    /\ status = [s \in Sockets |-> "new"]
    /\ out = <<>>
    /\ lastOp = NoOp
    /\ uncaught = ""

\* io.on('connection', (socket) => ...): the socket is in the room of its id
Connection(sock) ==
    /\ status[sock] = "new"
    /\ status' = [status EXCEPT ![sock] = "connected"]
    /\ Handled([ServerState EXCEPT !.sio = [@ EXCEPT ![sock] = {sock}]],
               Op("connection", sock, JsUndefined, JsUndefined, JsUndefined, JsUndefined))

JoinRoomFrom(sock, inputs) ==
    /\ status[sock] = "connected"
    /\ \E in \in inputs :
          Handled(JoinRoomHandler(ServerState, sock, in[1], in[2]),
                  Op("join-room", sock, in[1], in[2], JsUndefined, JsUndefined))
    /\ UNCHANGED status

JoinRoom(sock) == JoinRoomFrom(sock, JoinInputs(sock))

LeaveRoomFrom(sock, inputs) ==
    /\ status[sock] = "connected"
    /\ \E in \in inputs :
          Handled(LeaveRoomHandler(ServerState, sock, in[1], in[2]),
                  Op("leave-room", sock, in[1], in[2], JsUndefined, JsUndefined))
    /\ UNCHANGED status

Disconnect(sock) ==
    /\ status[sock] = "connected"
    /\ status' = [status EXCEPT ![sock] = "closed"]
    /\ Handled(DisconnectHandler(ServerState, sock),
               Op("disconnect", sock, JsUndefined, JsUndefined, JsUndefined, JsUndefined))

LeaveRoom(sock) == LeaveRoomFrom(sock, LeaveInputs(sock))

UserMediaReady(sock) ==
    /\ status[sock] = "connected"
    /\ \E in \in ReadyInputs(sock) :
          Handled(UserMediaReadyHandler(ServerState, sock, in[1], in[2]),
                  Op("user-media-ready", sock, in[2], JsUndefined, in[1], JsUndefined))
    /\ UNCHANGED status

(***************************************************************************)
(* The connection coordinator of VideoRoom.tsx: one client c per socket.   *)
(* Pending setTimeout callbacks are a set; they run in any order.          *)
(***************************************************************************)
\* socket.id < userId, on the generated ids
IdIndex(id) == CHOOSE i \in 1..Len(SocketIdTable) : SocketIdTable[i] = id
IdLess(a, b) == IdIndex(a) < IdIndex(b)

\* socket.emit(ev, { userId | targetUserId, roomId })
Message(ev, from, userId) == [ev |-> ev, from |-> from, userId |-> userId]

\* setTimeout(() => ..., delay) registered by the handler kind for user
Timer(kind, user) == [kind |-> kind, user |-> user]

ClientState(c) ==
    [ready |-> isLocalMediaReadyRef[c], listeners |-> pendingEventListeners[c],
     timeouts |-> timeouts[c], sent |-> <<>>, announced |-> hasAnnouncedReady[c]]

\* the body shared by handleUserJoined and connectWhenReady
AnnounceTo(C, c, user) ==
    [C EXCEPT !.sent = @ \o <<Message("user-ready", c, user),
                              Message("user-media-ready", c, user)>>,
              !.timeouts = @ \cup {Timer("user-joined", user)}]

\* handleUserJoined
HandleUserJoined(C, c, user) ==
    IF C.ready THEN AnnounceTo(C, c, user)
    ELSE [C EXCEPT !.listeners = @ \cup {user}]

\* connectWhenReady, the 'local-media-ready' listener registered for user
ConnectWhenReady(C, c, user) ==
    IF C.ready
    THEN [AnnounceTo(C, c, user) EXCEPT !.listeners = @ \ {user}]
    ELSE C

\* window.dispatchEvent(new CustomEvent('local-media-ready'))
RECURSIVE DispatchLocalMediaReady(_, _, _)
DispatchLocalMediaReady(C, c, todo) ==
    IF todo = {} THEN C
    ELSE LET user == CHOOSE u \in todo : TRUE
         IN  DispatchLocalMediaReady(ConnectWhenReady(C, c, user), c, todo \ {user})

\* handleUserMediaReady
HandleUserMediaReady(C, c, userId) ==
    IF C.ready THEN [C EXCEPT !.timeouts = @ \cup {Timer("user-media-ready", userId)}]
    ELSE C

\* handleRoomUsersResponse
HandleRoomUsersResponse(C, c, users) ==
    IF C.ready /\ users # {}
    THEN [C EXCEPT !.timeouts = @ \cup {Timer("room-users-response", u) : u \in users}]
    ELSE C

\* the body of the hasAnnouncedReady effect: setHasAnnouncedReady(true) and
\* the setTimeout that would announce to the room and ask for its users
ScheduleAnnounce(C, c) ==
    [C EXCEPT !.announced = TRUE, !.timeouts = @ \cup {Timer("announce", c)}]

\* the cleanup the effect returned: clearTimeout(timeout)
ClearAnnounce(C, c) == [C EXCEPT !.timeouts = @ \ {Timer("announce", c)}]

\* the hasAnnouncedReady effect.  Its own state update changes a dependency:
\* the render that follows runs the cleanup of this run, long before the
\* 500 ms of the timeout, and the new run finds hasAnnouncedReady set.
AnnounceReadyEffect(C, c) ==
    IF C.ready /\ ~C.announced THEN ClearAnnounce(ScheduleAnnounce(C, c), c) ELSE C

\* the setTimeout callbacks of the three handlers
RunTimeout(C, c, t) ==
    LET initiate == Message("initiate-connection", c, t.user)
        C1 == [C EXCEPT !.timeouts = @ \ {t}]
    IN  IF t.kind = "user-joined"
        THEN [C1 EXCEPT !.sent = Append(@, initiate)]
        ELSE IF t.kind = "user-media-ready"
        THEN IF IdLess(c, t.user) THEN [C1 EXCEPT !.sent = Append(@, initiate)] ELSE C1
        ELSE LET C2 == [C1 EXCEPT !.sent = Append(@, Message("user-media-ready", c, t.user))]
             IN  IF IdLess(c, t.user) THEN [C2 EXCEPT !.sent = Append(@, initiate)] ELSE C2

CoordInit ==
    /\ isLocalMediaReadyRef = [c \in Sockets |-> FALSE]
    /\ pendingEventListeners = [c \in Sockets |-> {}]
    /\ timeouts = [c \in Sockets |-> {}]
    /\ sent = <<>>
    /\ hasAnnouncedReady = [c \in Sockets |-> FALSE]

\* the handler of client c ran to completion: C is the state it leaves
ClientHandled(c, C) ==
    /\ isLocalMediaReadyRef' = [isLocalMediaReadyRef EXCEPT ![c] = C.ready]
    /\ pendingEventListeners' = [pendingEventListeners EXCEPT ![c] = C.listeners]
    /\ timeouts' = [timeouts EXCEPT ![c] = C.timeouts]
    /\ sent' = C.sent
    /\ hasAnnouncedReady' = [hasAnnouncedReady EXCEPT ![c] = C.announced]
    /\ UNCHANGED <<serverVars, rtcVars, ctxVars, media, singleton>>

\* setupMedia: 'local-media-ready' is dispatched right after
\* setIsLocalMediaReady(true), before the effects have synced the refs
SetupMedia(c) ==
    /\ ~isLocalMediaReadyRef[c]
    /\ ClientHandled(c, [DispatchLocalMediaReady(ClientState(c), c, pendingEventListeners[c])
                            EXCEPT !.ready = TRUE])

\* user-joined is broadcast to the whole room, the joiner included
OnUserJoined(c) ==
    \E user \in Sockets : ClientHandled(c, HandleUserJoined(ClientState(c), c, user))

OnUserMediaReady(c) ==
    \E userId \in Sockets \ {c} :
        ClientHandled(c, HandleUserMediaReady(ClientState(c), c, userId))

\* room-users-response lists the other members
OnRoomUsersResponse(c) ==
    \E users \in SUBSET (Sockets \ {c}) :
        ClientHandled(c, HandleRoomUsersResponse(ClientState(c), c, users))

TimeoutFires(c) ==
    \E t \in timeouts[c] : ClientHandled(c, RunTimeout(ClientState(c), c, t))

\* the effects run after the render that made the local media ready
AnnounceEffect(c) ==
    /\ isLocalMediaReadyRef[c]
    /\ ~hasAnnouncedReady[c]
    /\ ClientHandled(c, AnnounceReadyEffect(ClientState(c), c))

(***************************************************************************)
(* Offer/answer negotiation of webrtc.ts (src/unnamed/part_000), with the  *)
(* RTCPeerConnection signaling states of the platform.  Every client has a *)
(* local stream; a session is the entry of videoContext.peerConnections.   *)
(***************************************************************************)
MaxOffers == 2

NoDesc == [type |-> "none", from |-> "", to |-> "", n |-> 0]
\* the n-th offer p creates, for q
Offer(p, q, n) == [type |-> "offer", from |-> p, to |-> q, n |-> n]
\* peerConnection.createAnswer(): the answer to the remote offer
Answer(offer) == [type |-> "answer", from |-> offer.to, to |-> offer.from, n |-> offer.n]

Absent ==
    [signalingState |-> "absent", pendingLocal |-> NoDesc,
     localDescription |-> NoDesc, remoteDescription |-> NoDesc,
     negotiationNeeded |-> FALSE, gathered |-> 0, candidates |-> {}]

\* createPeerConnection: new RTCPeerConnection, addTrack of the local tracks
\* (which marks the connection as needing negotiation)
CreatePeerConnection ==
    [signalingState |-> "stable", pendingLocal |-> NoDesc,
     localDescription |-> NoDesc, remoteDescription |-> NoDesc,
     negotiationNeeded |-> TRUE, gathered |-> 0, candidates |-> {}]

\* setLocalDescription(offer)
SetLocalOffer(pc, offer) ==
    [pc EXCEPT !.signalingState = "have-local-offer", !.pendingLocal = offer]

\* setLocalDescription({ type: 'rollback' }) in have-local-offer: back to
\* stable, and negotiation is needed again
RollbackLocal(pc) ==
    [pc EXCEPT !.signalingState = "stable", !.pendingLocal = NoDesc,
               !.negotiationNeeded = TRUE]

\* setRemoteDescription(offer); createAnswer(); setLocalDescription(answer)
ApplyOfferAndAnswer(pc, offer) ==
    [pc EXCEPT !.signalingState = "stable", !.pendingLocal = NoDesc,
               !.localDescription = Answer(offer), !.remoteDescription = offer,
               !.negotiationNeeded = FALSE]

\* the 'webrtc-offer' handler on the session for the sender: the session it
\* leaves and the answer it emits (NoDesc: none).  In have-local-offer the
\* local rollback succeeds and setRemoteDescription({ type: 'rollback' }),
\* called in stable, rejects with InvalidStateError: the catch ends the
\* handler.  On a closed connection the first rollback rejects already.
HandleOffer(pc, offer) ==
    LET pc0 == IF pc.signalingState = "absent" THEN CreatePeerConnection ELSE pc
    IN  IF pc0.signalingState = "closed"
        THEN [pc |-> pc0, answer |-> NoDesc]
        ELSE IF pc0.signalingState # "stable"
        THEN [pc |-> RollbackLocal(pc0), answer |-> NoDesc]
        ELSE [pc |-> ApplyOfferAndAnswer(pc0, offer), answer |-> Answer(offer)]

\* the 'user-left' handler: connection.close(), peerConnections.delete(userId)
HandleUserLeft(pc) == Absent

\* HandleAnswer without the test of the signaling state
HandleAnswer_NoStateCheck(pc, answer) ==
    [pc EXCEPT !.signalingState = "stable", !.localDescription = pc.pendingLocal,
               !.pendingLocal = NoDesc, !.remoteDescription = answer,
               !.negotiationNeeded = FALSE]

\* the 'webrtc-answer' handler
HandleAnswer(pc, answer) ==
    IF pc.signalingState = "have-local-offer"
    THEN [pc EXCEPT !.signalingState = "stable", !.localDescription = pc.pendingLocal,
                    !.pendingLocal = NoDesc, !.remoteDescription = answer,
                    !.negotiationNeeded = FALSE]
    ELSE pc

\* setRemoteDescription(answer) of the platform: it resolves in
\* have-local-offer and rejects with InvalidStateError in every other state
SetRemoteAnswer(pc, answer) ==
    IF pc.signalingState = "have-local-offer"
    THEN [pc EXCEPT !.signalingState = "stable", !.localDescription = pc.pendingLocal,
                    !.pendingLocal = NoDesc, !.remoteDescription = answer,
                    !.negotiationNeeded = FALSE]
    ELSE pc

\* the 'webrtc-answer' handler of src/lib/webrtc.ts: a session that is not
\* closed gets setRemoteDescription(answer), a rejection is caught
SignalingAnswer(pc, answer) ==
    IF pc.signalingState = "absent" THEN pc ELSE SetRemoteAnswer(pc, answer)

Pairs == {pq \in Sockets \X Sockets : pq[1] # pq[2]}

RtcInit ==
    /\ peerConnections = [p \in Sockets |-> [q \in Sockets |-> Absent]]
    /\ wire = [pq \in Pairs |-> <<>>]
    /\ resendTimers = {}
    /\ offersMade = [p \in Sockets |-> 0]
    /\ glared = {}

\* createOffer(userId): createOffer, setLocalDescription, emit webrtc-offer
\* and the setTimeout that sends it again
CreateOffer(p, q, pc) ==
    LET offer == Offer(p, q, offersMade[p] + 1)
    IN  /\ peerConnections' = [peerConnections EXCEPT ![p][q] = SetLocalOffer(pc, offer)]
        /\ wire' = [wire EXCEPT ![<<p, q>>] = Append(@, offer)]
        /\ resendTimers' = resendTimers \cup {offer}
        /\ offersMade' = [offersMade EXCEPT ![p] = @ + 1]
        /\ UNCHANGED <<glared, serverVars, coordVars, ctxVars, media, singleton>>

\* socket.on('user-joined'): p learns that q joined
RtcUserJoined(p, q) ==
    /\ peerConnections[p][q].signalingState = "absent"
    /\ offersMade[p] < MaxOffers
    /\ CreateOffer(p, q, CreatePeerConnection)

\* peerConnection.onnegotiationneeded: fired in stable
NegotiationNeeded(p, q) ==
    /\ peerConnections[p][q].signalingState = "stable"
    /\ peerConnections[p][q].negotiationNeeded
    /\ offersMade[p] < MaxOffers
    /\ CreateOffer(p, q, peerConnections[p][q])

\* the setTimeout callback of createOffer
ResendOffer(p, q) ==
    \E offer \in resendTimers :
        /\ offer.type = "offer"
        /\ offer.from = p /\ offer.to = q
        /\ resendTimers' = resendTimers \ {offer}
        /\ wire' = IF peerConnections[p][q].signalingState = "have-local-offer"
                   THEN [wire EXCEPT ![<<p, q>>] = Append(@, offer)]
                   ELSE wire
        /\ UNCHANGED <<peerConnections, offersMade, glared, serverVars, coordVars, ctxVars, media, singleton>>

\* q receives the offer p sent
OnWebrtcOffer(p, q) ==
    /\ wire[<<p, q>>] # <<>>
    /\ Head(wire[<<p, q>>]).type = "offer"
    /\ LET offer == Head(wire[<<p, q>>])
           done  == HandleOffer(peerConnections[q][p], offer)
       IN  /\ peerConnections' = [peerConnections EXCEPT ![q][p] = done.pc]
           /\ wire' = [wire EXCEPT ![<<p, q>>] = Tail(@),
                                   ![<<q, p>>] = IF done.answer = NoDesc THEN @
                                                 ELSE Append(@, done.answer)]
           /\ glared' = IF peerConnections[q][p].signalingState = "have-local-offer"
                        THEN glared \cup {<<q, p>>} ELSE glared
    /\ UNCHANGED <<resendTimers, offersMade, serverVars, coordVars, ctxVars, media, singleton>>

\* q receives the answer p sent
OnWebrtcAnswer(p, q) ==
    /\ wire[<<p, q>>] # <<>>
    /\ Head(wire[<<p, q>>]).type = "answer"
    /\ peerConnections' = [peerConnections EXCEPT
                              ![q][p] = HandleAnswer(@, Head(wire[<<p, q>>]))]
    /\ wire' = [wire EXCEPT ![<<p, q>>] = Tail(@)]
    /\ UNCHANGED <<resendTimers, offersMade, glared, serverVars, coordVars, ctxVars, media, singleton>>

MaxCandidates == 1

\* the n-th ICE candidate p's connection for q gathers
Candidate(p, q, n) == [type |-> "candidate", from |-> p, to |-> q, n |-> n]

\* the 'webrtc-ice-candidate' handler: addIceCandidate only if the session
\* has a remote description; else the candidate is logged
HandleIceCandidate(pc, candidate) ==
    IF pc.signalingState = "absent" THEN pc
    ELSE IF pc.remoteDescription # NoDesc
    THEN [pc EXCEPT !.candidates = @ \cup {candidate}]
    ELSE pc

\* peerConnection.onicecandidate of p's connection for q, which gathers once
\* it has a local description: emit webrtc-ice-candidate
IceCandidateGenerated(p, q) ==
    LET pc == peerConnections[p][q]
    IN  /\ pc.pendingLocal # NoDesc \/ pc.localDescription # NoDesc
        /\ pc.gathered < MaxCandidates
        /\ peerConnections' = [peerConnections EXCEPT ![p][q].gathered = @ + 1]
        /\ wire' = [wire EXCEPT ![<<p, q>>] = Append(@, Candidate(p, q, pc.gathered + 1))]
        /\ UNCHANGED <<resendTimers, offersMade, glared, serverVars, coordVars,
                       ctxVars, media, singleton>>

\* q receives the candidate p sent
OnWebrtcIceCandidate(p, q) ==
    /\ wire[<<p, q>>] # <<>>
    /\ Head(wire[<<p, q>>]).type = "candidate"
    /\ peerConnections' = [peerConnections EXCEPT
                              ![q][p] = HandleIceCandidate(@, Head(wire[<<p, q>>]))]
    /\ wire' = [wire EXCEPT ![<<p, q>>] = Tail(@)]
    /\ UNCHANGED <<resendTimers, offersMade, glared, serverVars, coordVars,
                   ctxVars, media, singleton>>

\* p handles the user-left of q: the session is closed and deleted; the
\* resend callbacks of its offers find the connection closed
RtcUserLeft(p, q) ==
    /\ peerConnections[p][q].signalingState # "absent"
    /\ peerConnections' = [peerConnections EXCEPT ![p][q] = HandleUserLeft(@)]
    /\ resendTimers' = {o \in resendTimers :
                            ~(o.type = "offer" /\ o.from = p /\ o.to = q)}
    /\ UNCHANGED <<wire, offersMade, glared, serverVars, coordVars, ctxVars, media, singleton>>

\* q, a client of src/lib/webrtc.ts, receives the answer p sent
OnWebrtcAnswerLib(p, q) ==
    /\ wire[<<p, q>>] # <<>>
    /\ Head(wire[<<p, q>>]).type = "answer"
    /\ peerConnections' = [peerConnections EXCEPT
                              ![q][p] = SignalingAnswer(@, Head(wire[<<p, q>>]))]
    /\ wire' = [wire EXCEPT ![<<p, q>>] = Tail(@)]
    /\ UNCHANGED <<resendTimers, offersMade, glared, serverVars, coordVars, ctxVars, media, singleton>>

\* peerConnection.close()
CloseConnection(pc) == [pc EXCEPT !.signalingState = "closed"]

\* the setTimeout of onconnectionstatechange, pending at p for the peer q
ReconnectTimer(p, q) == [type |-> "reconnect", from |-> p, to |-> q, n |-> 0]

\* createPeerConnection(userId, userName) in the reconnect callback: the
\* connection it creates is returned to nobody and the map keeps its entry
Reconnect(pc) ==
    LET created == CreatePeerConnection
    IN  pc

\* onconnectionstatechange of p's connection for q with the state 'failed',
\* which a connection with both descriptions can reach: close it and set
\* the reconnect timer
ConnectionFailed(p, q) ==
    LET pc == peerConnections[p][q]
    IN  /\ pc.signalingState \notin {"absent", "closed"}
        /\ pc.localDescription # NoDesc /\ pc.remoteDescription # NoDesc
        /\ peerConnections' = [peerConnections EXCEPT ![p][q] = CloseConnection(@)]
        /\ resendTimers' = resendTimers \cup {ReconnectTimer(p, q)}
        /\ UNCHANGED <<wire, offersMade, glared, serverVars, coordVars, ctxVars, media, singleton>>

\* the reconnect callback: if the map has the peer, createPeerConnection and
\* createOffer(userId), which takes the connection of the map; createOffer
\* of a closed connection rejects and the catch ends it
ReconnectTimerFires(p, q) ==
    LET pc    == IF peerConnections[p][q].signalingState = "absent"
                 THEN Absent ELSE Reconnect(peerConnections[p][q])
        offer == Offer(p, q, offersMade[p] + 1)
    IN  /\ ReconnectTimer(p, q) \in resendTimers
        /\ IF pc.signalingState \in {"absent", "closed"}
           THEN /\ resendTimers' = resendTimers \ {ReconnectTimer(p, q)}
                /\ UNCHANGED <<peerConnections, wire, offersMade>>
           ELSE /\ offersMade[p] < MaxOffers
                /\ peerConnections' = [peerConnections EXCEPT
                                          ![p][q] = SetLocalOffer(pc, offer)]
                /\ wire' = [wire EXCEPT ![<<p, q>>] = Append(@, offer)]
                /\ resendTimers' = (resendTimers \ {ReconnectTimer(p, q)}) \cup {offer}
                /\ offersMade' = [offersMade EXCEPT ![p] = @ + 1]
        /\ UNCHANGED <<glared, serverVars, coordVars, ctxVars, media, singleton>>

(***************************************************************************)
(* The signaling of src/lib/webrtc.ts, set up by the VideoRoom component   *)
(* that goes with it: setupMedia awaits initLocalStream and then calls     *)
(* initializeWebRTC.  A client handles an emitted event at most once.      *)
(***************************************************************************)
CtxInit ==
    /\ localStream = [c \in Sockets |-> FALSE]
    /\ signalingEvents = [c \in Sockets |-> FALSE]
    /\ received = {}

VideoContext(c) ==
    [peerConnections |-> peerConnections[c], localStream |-> localStream[c],
     offers |-> 0]

\* createPeerConnection(userId, userName): the local tracks are added when
\* there is a local stream
NewPeerConnection(ctx) ==
    [CreatePeerConnection EXCEPT !.negotiationNeeded = ctx.localStream]

\* cleanupConnections
CleanupConnections(ctx) ==
    [ctx EXCEPT !.peerConnections = [q \in Sockets |-> Absent],
                !.localStream = FALSE]

\* socket.on('user-joined', ({ user }) => ...): createPeerConnection, and
\* createOffer when there is a local stream
SignalingUserJoined(ctx, c, user) ==
    IF user = c THEN ctx
    ELSE IF ctx.localStream
    THEN [ctx EXCEPT !.peerConnections[user] =
                         SetLocalOffer(NewPeerConnection(ctx), Offer(c, user, 1)),
                     !.offers = @ + 1]
    ELSE [ctx EXCEPT !.peerConnections[user] = NewPeerConnection(ctx)]

\* socket.on('user-left', ({ userId }) => removePeerConnection(userId))
SignalingUserLeft(ctx, userId) ==
    [ctx EXCEPT !.peerConnections[userId] = Absent]

Receipt(c, i, offers) == [sock |-> c, i |-> i, offers |-> offers]
ReceiptsOf(c, i) == {r \in received : r.sock = c /\ r.i = i}

\* the listeners ran to completion: ctx is the context they leave
SignalingHandled(c, i, ctx) ==
    /\ peerConnections' = [peerConnections EXCEPT ![c] = ctx.peerConnections]
    /\ localStream' = [localStream EXCEPT ![c] = ctx.localStream]
    /\ received' = received \cup {Receipt(c, i, ctx.offers)}
    /\ UNCHANGED <<signalingEvents, wire, resendTimers, offersMade, glared,
                   serverVars, coordVars, media, singleton>>

\* initLocalStream resolves: videoContext.localStream = stream
InitLocalStream(c) ==
    /\ status[c] = "connected"
    /\ ~signalingEvents[c]
    /\ ~localStream[c]
    /\ localStream' = [localStream EXCEPT ![c] = TRUE]
    /\ UNCHANGED <<signalingEvents, received, serverVars, coordVars, rtcVars, media, singleton>>

\* initializeWebRTC(socket, roomId, userName): cleanupConnections, then
\* setupSignalingEvents
InitializeWebRTC(c) ==
    /\ status[c] = "connected"
    /\ ~signalingEvents[c]
    /\ localStream[c]
    /\ LET ctx == CleanupConnections(VideoContext(c))
       IN  /\ peerConnections' = [peerConnections EXCEPT ![c] = ctx.peerConnections]
           /\ localStream' = [localStream EXCEPT ![c] = ctx.localStream]
    /\ signalingEvents' = [signalingEvents EXCEPT ![c] = TRUE]
    /\ UNCHANGED <<received, wire, resendTimers, offersMade, glared,
                   serverVars, coordVars, media, singleton>>

\* c receives the i-th emitted event, a user-joined
SignalUserJoinedAt(c, i) ==
    /\ status[c] = "connected"
    /\ signalingEvents[c]
    /\ out[i].ev = "user-joined"
    /\ c \in out[i].to
    /\ ReceiptsOf(c, i) = {}
    /\ SignalingHandled(c, i, SignalingUserJoined(VideoContext(c), c, out[i].userId))

SignalUserJoined(c) == \E i \in 1..Len(out) : SignalUserJoinedAt(c, i)

\* c receives the i-th emitted event, a user-left
SignalUserLeftAt(c, i) ==
    /\ status[c] = "connected"
    /\ signalingEvents[c]
    /\ out[i].ev = "user-left"
    /\ c \in out[i].to
    /\ ReceiptsOf(c, i) = {}
    /\ SignalingHandled(c, i, SignalingUserLeft(VideoContext(c), out[i].userId))

SignalUserLeft(c) == \E i \in 1..Len(out) : SignalUserLeftAt(c, i)

(***************************************************************************)
(* The media of one client of webrtc.ts (src/unnamed/part_000) and of the  *)
(* one peer it has a session with: the local streams it acquires, the      *)
(* remote stream of the peer, the enabled flag and readyState of every     *)
(* track, the audio/video toggles and one heartbeat per stream.            *)
(***************************************************************************)
MaxStreams == 2
MaxFailures == 5
MaxPending == 2
\* if (failureCount > 3 && label === 'local-stream' ...)
RestartAfter == 3

Kinds == {"video", "audio"}
RemoteStream == 0
LocalStreams == 1..MaxStreams
NoStream == -1
StreamIds == {RemoteStream} \cup LocalStreams
Tracks == StreamIds \X Kinds

NoHeartbeat ==
    [running |-> FALSE, failureCount |-> 0,
     lastState |-> [video |-> FALSE, audio |-> FALSE]]

\* a pending callback: the getUserMedia of a restart the heartbeat of stream
\* `by` asked for, or a setTimeout
MediaTimer(kind, by) == [kind |-> kind, by |-> by]

MediaInit ==
    media = [enabled |-> [t \in Tracks |-> FALSE],
             live |-> [t \in Tracks |-> FALSE],
             localStream |-> NoStream,
             acquired |-> 0,
             videoDisabled |-> FALSE,
             audioDisabled |-> FALSE,
             session |-> FALSE,
             remoteStream |-> FALSE,
             senders |-> NoStream,
             heartbeat |-> [s \in StreamIds |-> NoHeartbeat],
             timers |-> {},
             pending |-> 0,
             out |-> <<>>]

\* stream.active
StreamActive(M, s) == \E k \in Kinds : M.live[<<s, k>>]

\* ensureTracksEnabled(stream): its return value
Modified(M, s) == \E k \in Kinds : ~M.enabled[<<s, k>>]

\* ensureTracksEnabled(stream)
EnsureTracksEnabled(M, s) ==
    [M EXCEPT !.enabled = [t \in Tracks |-> IF t[1] = s THEN TRUE ELSE @[t]]]

\* window.dispatchEvent(...) and socket.emit(...)
MediaEmit(M, ev) == [M EXCEPT !.out = Append(@, ev)]

\* !videoContext.videoDisabled, !videoContext.audioDisabled
ShouldBeEnabled(M, k) == IF k = "video" THEN ~M.videoDisabled ELSE ~M.audioDisabled

\* checkTrackHealth(track) is false
Unhealthy(M, s, k) == ~M.live[<<s, k>>] \/ ~M.enabled[<<s, k>>]

\* the track's state changed unexpectedly (local stream only)
Unexpected(M, s, k) ==
    /\ s # RemoteStream
    /\ M.enabled[<<s, k>>] # M.heartbeat[s].lastState[k]
    /\ M.enabled[<<s, k>>] # ShouldBeEnabled(M, k)

\* the calls of initLocalStream by a heartbeat that await getUserMedia,
\* with one more
OneMorePending(M, by) ==
    IF by = NoStream THEN M.pending
    ELSE IF M.pending < MaxPending THEN M.pending + 1 ELSE M.pending

\* initLocalStream that does not stop the tracks of the previous stream
StopPreviousStream_KeepsTracks(M, by) ==
    [M EXCEPT !.timers = @ \cup {MediaTimer("getUserMedia", by)},
              !.pending = OneMorePending(M, by)]

\* the start of initLocalStream, up to its await of getUserMedia: the
\* previous stream's tracks are stopped
StopPreviousStream(M, by) ==
    [M EXCEPT !.live = [t \in Tracks |-> IF t[1] = M.localStream THEN FALSE ELSE @[t]],
              !.timers = @ \cup {MediaTimer("getUserMedia", by)},
              !.pending = OneMorePending(M, by)]

\* startStreamHeartbeat.checkTracks of the heartbeat of stream s
CheckTracks(M, s) ==
    IF ~StreamActive(M, s) THEN [M EXCEPT !.heartbeat[s].running = FALSE]
    ELSE
    LET hasIssues == \E k \in Kinds : Unhealthy(M, s, k) \/ Unexpected(M, s, k)
        reenable(k) == M.live[<<s, k>>] /\ ShouldBeEnabled(M, k) /\ ~M.enabled[<<s, k>>]
        hasChanges == \E k \in Kinds : reenable(k)
        last(k) == IF M.live[<<s, k>>] THEN ShouldBeEnabled(M, k)
                   ELSE M.heartbeat[s].lastState[k]
        count == IF hasIssues
                 THEN IF M.heartbeat[s].failureCount < MaxFailures
                      THEN M.heartbeat[s].failureCount + 1 ELSE MaxFailures
                 ELSE 0
        M1 == [M EXCEPT !.enabled = [t \in Tracks |->
                                        IF t[1] = s /\ reenable(t[2]) THEN TRUE ELSE @[t]],
                        !.heartbeat[s].lastState = [k \in Kinds |-> last(k)],
                        !.heartbeat[s].failureCount = count]
        M2 == IF hasIssues /\ count > RestartAfter /\ s # RemoteStream
              THEN StopPreviousStream(M1, s) ELSE M1
    IN  IF hasChanges THEN MediaEmit(M2, "webrtc-tracks-changed") ELSE M2

\* startStreamHeartbeat(stream, label): lastState, the immediate check and
\* the interval
StartStreamHeartbeat(M, s) ==
    CheckTracks([M EXCEPT !.heartbeat[s] =
                    [running |-> TRUE, failureCount |-> 0,
                     lastState |-> [k \in Kinds |-> M.enabled[<<s, k>>]]]], s)

\* initLocalStream after getUserMedia resolved with stream s; in the then
\* of a restart the heartbeat that asked for it resets its failureCount
LocalStreamAcquired(M, s, timer) ==
    LET left == IF timer.by = NoStream \/ M.pending = 0 THEN M.pending
                ELSE M.pending - 1
        M1 == [M EXCEPT !.enabled = [t \in Tracks |-> IF t[1] = s THEN TRUE ELSE @[t]],
                        !.live = [t \in Tracks |-> IF t[1] = s THEN TRUE ELSE @[t]],
                        !.localStream = s,
                        !.acquired = s,
                        !.pending = left,
                        !.timers = IF timer.by # NoStream /\ left > 0 THEN @
                                   ELSE @ \ {timer}]
        M2 == StartStreamHeartbeat(M1, s)
    IN  IF timer.by = NoStream THEN M2
        ELSE [M2 EXCEPT !.heartbeat[timer.by].failureCount = 0]

\* toggleVideo, toggleAudio
ToggleTrack(M, k) ==
    IF M.localStream = NoStream THEN M
    ELSE LET on == ~M.enabled[<<M.localStream, k>>]
         IN  [M EXCEPT !.enabled[<<M.localStream, k>>] = on,
                       !.videoDisabled = IF k = "video" THEN ~on ELSE @,
                       !.audioDisabled = IF k = "audio" THEN ~on ELSE @]

\* createPeerConnection(userId, userName): the local tracks are enabled and
\* added to the new connection
MediaCreatePeerConnection(M) ==
    IF M.localStream = NoStream THEN M
    ELSE [EnsureTracksEnabled(M, M.localStream) EXCEPT !.senders = M.localStream]

\* createOffer(userId), up to its createOffer on the connection
MediaCreateOffer(M) ==
    IF ~M.session THEN M
    ELSE IF M.localStream = NoStream THEN M
    ELSE EnsureTracksEnabled(M, M.localStream)

\* socket.on('user-joined'): createPeerConnection, the map entry, and
\* createOffer if there is a local stream
MediaUserJoined(M) ==
    LET M1 == [MediaCreatePeerConnection(M) EXCEPT !.session = TRUE]
    IN  IF M1.localStream # NoStream THEN MediaCreateOffer(M1) ELSE M1

\* socket.on('webrtc-renegotiate'), the connection being connected
MediaRenegotiate(M) ==
    IF M.session /\ M.localStream # NoStream THEN MediaCreateOffer(M) ELSE M

\* peerConnection.ontrack: the remote stream becomes the session's stream
MediaOnTrack(M, enabled) ==
    LET M1 == [M EXCEPT !.enabled = [t \in Tracks |->
                                        IF t[1] = RemoteStream THEN enabled[t[2]] ELSE @[t]],
                        !.live = [t \in Tracks |-> IF t[1] = RemoteStream THEN TRUE ELSE @[t]],
                        !.remoteStream = TRUE,
                        !.timers = @ \cup {MediaTimer("delayed-check", RemoteStream)}]
    IN  StartStreamHeartbeat(EnsureTracksEnabled(M1, RemoteStream), RemoteStream)

\* the setTimeout of ontrack: the delayed track check
DelayedTrackCheck(M) ==
    LET M1 == [M EXCEPT !.timers = @ \ {MediaTimer("delayed-check", RemoteStream)}]
    IN  IF M1.remoteStream /\ Modified(M1, RemoteStream)
        THEN MediaEmit(EnsureTracksEnabled(M1, RemoteStream), "webrtc-tracks-changed")
        ELSE M1

\* event.track.onended of a remote track, the connection being connected
RemoteTrackEnded(M, k) ==
    MediaEmit([M EXCEPT !.live[<<RemoteStream, k>>] = FALSE], "webrtc-renegotiate")

\* a step of the client's media ran to completion: M is the state it leaves
MediaHandled(M) ==
    /\ media' = M
    /\ UNCHANGED <<serverVars, coordVars, rtcVars, ctxVars, singleton>>

\* the state a step starts from: nothing emitted yet
Media == [media EXCEPT !.out = <<>>]

\* the component calls initLocalStream when it mounts
CallInitLocalStream ==
    /\ media.acquired = 0
    /\ media.timers = {}
    /\ MediaHandled(StopPreviousStream(Media, NoStream))

\* getUserMedia resolves
GetUserMediaResolved ==
    /\ media.acquired < MaxStreams
    /\ \E timer \in media.timers :
          /\ timer.kind = "getUserMedia"
          /\ MediaHandled(LocalStreamAcquired(Media, media.acquired + 1, timer))

ToggleVideo == MediaHandled(ToggleTrack(Media, "video"))

ToggleAudio == MediaHandled(ToggleTrack(Media, "audio"))

\* the interval of a running heartbeat fires
Heartbeat(streams) ==
    \E s \in streams :
        /\ media.heartbeat[s].running
        /\ MediaHandled(CheckTracks(Media, s))

\* the platform or a device disables a live, enabled track
ExternalDisable(streams) ==
    \E t \in streams \X Kinds :
        /\ media.live[t] /\ media.enabled[t]
        /\ MediaHandled([Media EXCEPT !.enabled[t] = FALSE])

OnUserJoinedMedia ==
    /\ ~media.session
    /\ MediaHandled(MediaUserJoined(Media))

OnRenegotiateMedia ==
    /\ media.session
    /\ MediaHandled(MediaRenegotiate(Media))

OnTrack ==
    /\ media.session
    /\ ~media.remoteStream
    /\ \E enabled \in [Kinds -> BOOLEAN] : MediaHandled(MediaOnTrack(Media, enabled))

DelayedCheckFires ==
    /\ MediaTimer("delayed-check", RemoteStream) \in media.timers
    /\ MediaHandled(DelayedTrackCheck(Media))

OnRemoteTrackEnded ==
    \E k \in Kinds :
        /\ media.live[<<RemoteStream, k>>]
        /\ MediaHandled(RemoteTrackEnded(Media, k))

(***************************************************************************)
(* The socket singleton of utils/socket.ts: the module variables socket    *)
(* and connectPromise, the connection attempts (the async function whose   *)
(* promise connectPromise holds) and the calls of initializeSocket by the  *)
(* pages.                                                                  *)
(***************************************************************************)
MaxAttempts == 3
NoSocket == 0
NoPromise == 0
\* the attempt rejected
Failed == -1
\* the callers of initializeSocket: the effect and the join handler of a page
Callers == {"effect", "join"}

Idle == [state |-> "idle", attempt |-> NoPromise, got |-> NoSocket]
Waiting(n) == [state |-> "waiting", attempt |-> n, got |-> NoSocket]
Done(n, result) == [state |-> "done", attempt |-> n, got |-> result]

SocketInit ==
    singleton = [socket |-> NoSocket,
                 connected |-> {},
                 connectPromise |-> NoPromise,
                 stage |-> "none",
                 attempts |-> 0,
                 sockets |-> 0,
                 created |-> [n \in 1..MaxAttempts |-> {}],
                 calls |-> [k \in Callers |-> Idle]]

\* initializeSocket without the test of connectPromise
InitializeSocket_NoGuard(M, k) ==
    IF M.socket # NoSocket /\ M.socket \in M.connected
    THEN [M EXCEPT !.calls[k] = Done(NoPromise, M.socket)]
    ELSE [M EXCEPT !.attempts = @ + 1,
                   !.connectPromise = M.attempts + 1,
                   !.stage = "fetching",
                   !.socket = NoSocket,
                   !.calls[k] = Waiting(M.attempts + 1)]

\* initializeSocket(), up to the promise it returns: the promise of the
\* attempt in flight, or the connected socket, or a new attempt, which
\* first drops a disconnected socket and then awaits the fetch
InitializeSocket(M, k) ==
    IF M.connectPromise # NoPromise
    THEN [M EXCEPT !.calls[k] = Waiting(M.connectPromise)]
    ELSE IF M.socket # NoSocket /\ M.socket \in M.connected
    THEN [M EXCEPT !.calls[k] = Done(NoPromise, M.socket)]
    ELSE [M EXCEPT !.attempts = @ + 1,
                   !.connectPromise = M.attempts + 1,
                   !.stage = "fetching",
                   !.socket = NoSocket,
                   !.calls[k] = Waiting(M.attempts + 1)]

\* socket = io(socketUrl, ...), after the fetch loop of the attempt
CreateSocket(M) ==
    [M EXCEPT !.socket = M.sockets + 1,
              !.sockets = @ + 1,
              !.created[M.connectPromise] = @ \cup {M.sockets + 1},
              !.stage = "connecting"]

\* the attempt ends with result: the finally clears connectPromise and the
\* calls that hold its promise get the result
Settle(M, result) ==
    [M EXCEPT !.connectPromise = NoPromise,
              !.stage = "none",
              !.calls = [k \in Callers |->
                            IF @[k].state = "waiting" /\ @[k].attempt = M.connectPromise
                            THEN Done(M.connectPromise, result) ELSE @[k]]]

\* the 'connect' event of the attempt's socket: return socket
ConnectSucceeds(M) ==
    Settle([M EXCEPT !.connected = @ \cup {M.socket}], M.socket)

\* connect_error or the 10 s timeout: the catch disconnects and drops the
\* socket and rethrows
ConnectFails(M) ==
    Settle([M EXCEPT !.connected = @ \ {M.socket}, !.socket = NoSocket], Failed)

\* disconnectSocket()
DisconnectSocketCall(M) ==
    IF M.socket # NoSocket
    THEN [M EXCEPT !.connected = @ \ {M.socket}, !.socket = NoSocket]
    ELSE M

\* a step of the socket singleton ran to completion: M is the state it leaves
SocketHandled(M) ==
    /\ singleton' = M
    /\ UNCHANGED <<serverVars, coordVars, rtcVars, ctxVars, media>>

\* a page calls initializeSocket
CallInitializeSocket(k) ==
    /\ singleton.calls[k].state = "idle"
    /\ InitializeSocket(singleton, k).attempts <= MaxAttempts
    /\ SocketHandled(InitializeSocket(singleton, k))

\* the await of the page continues with the result
CallReturns(k) ==
    /\ singleton.calls[k].state = "done"
    /\ SocketHandled([singleton EXCEPT !.calls[k] = Idle])

SocketCreated ==
    /\ singleton.stage = "fetching"
    /\ SocketHandled(CreateSocket(singleton))

SocketConnects ==
    /\ singleton.stage = "connecting"
    /\ singleton.socket # NoSocket
    /\ SocketHandled(ConnectSucceeds(singleton))

ConnectFailed ==
    /\ singleton.stage = "connecting"
    /\ SocketHandled(ConnectFails(singleton))

\* a page leaves: disconnectSocket()
DisconnectSocket ==
    /\ singleton.socket # NoSocket
    /\ SocketHandled(DisconnectSocketCall(singleton))

\* the transport of the connected socket is lost: socket.connected is false
SocketDrops ==
    /\ singleton.socket \in singleton.connected
    /\ SocketHandled([singleton EXCEPT !.connected = @ \ {singleton.socket}])

Init == ServerInit /\ CoordInit /\ RtcInit /\ CtxInit /\ MediaInit /\ SocketInit

\* The room registry: connections, joins (well-formed or not), leaves and
\* disconnects.
Next ==
    \E sock \in Sockets :
        \/ Connection(sock)
        \/ JoinRoom(sock)
        \/ LeaveRoom(sock)
        \/ Disconnect(sock)

Spec == Init /\ [][Next]_vars

(***************************************************************************)
(* The registry together with the media-ready tracker: the clients use the *)
(* first room id or their own socket id, and one display name.             *)
(***************************************************************************)
JoinFirstRoom(sock) ==
    JoinRoomFrom(sock, (FirstRoomIds(sock) \X {SomeName}) \cup InvalidInputs)

LeaveFirstRoom(sock) ==
    LeaveRoomFrom(sock, (FirstRoomIds(sock) \X {SomeName})
                            \cup {<<JsUndefined, SomeName>>, <<SomeRoomId, JsUndefined>>})

NextReady ==
    \E sock \in Sockets :
        \/ Connection(sock)
        \/ JoinFirstRoom(sock)
        \/ LeaveFirstRoom(sock)
        \/ Disconnect(sock)
        \/ UserMediaReady(sock)

SpecReady == Init /\ [][NextReady]_vars

(***************************************************************************)
(* The signaling relay: the registry with well-formed joins, and the five  *)
(* relay messages.                                                         *)
(***************************************************************************)
JoinRoomValid(sock) == JoinRoomFrom(sock, FirstRoomIds(sock) \X {SomeName})

InitiateConnection(sock) ==
    /\ status[sock] = "connected"
    /\ \E target \in RelayReceiverIds, roomId \in RelayRoomIds(sock) :
          Handled(InitiateConnectionHandler(ServerState, sock, target, roomId),
                  Op("initiate-connection", sock, roomId, JsUndefined, target, JsUndefined))
    /\ UNCHANGED status

WebrtcOffer(sock) ==
    /\ status[sock] = "connected"
    /\ \E offer \in BlobInputs, receiverId \in RelayReceiverIds,
          senderName \in ValidNames, roomId \in RelayRoomIds(sock) :
          Handled(WebrtcOfferHandler(ServerState, sock, offer, receiverId, senderName, roomId),
                  Op("webrtc-offer", sock, roomId, senderName, receiverId, offer))
    /\ UNCHANGED status

WebrtcAnswer(sock) ==
    /\ status[sock] = "connected"
    /\ \E answer \in BlobInputs, receiverId \in RelayReceiverIds,
          senderName \in ValidNames, roomId \in RelayRoomIds(sock) :
          Handled(WebrtcAnswerHandler(ServerState, sock, answer, receiverId, senderName, roomId),
                  Op("webrtc-answer", sock, roomId, senderName, receiverId, answer))
    /\ UNCHANGED status

WebrtcIceCandidate(sock) ==
    /\ status[sock] = "connected"
    /\ \E candidate \in BlobInputs, receiverId \in RelayReceiverIds, roomId \in RelayRoomIds(sock) :
          Handled(WebrtcIceCandidateHandler(ServerState, sock, candidate, receiverId, roomId),
                  Op("webrtc-ice-candidate", sock, roomId, JsUndefined, receiverId, candidate))
    /\ UNCHANGED status

WebrtcRenegotiate(sock) ==
    /\ status[sock] = "connected"
    /\ \E receiverId \in RelayReceiverIds, roomId \in RelayRoomIds(sock) :
          Handled(WebrtcRenegotiateHandler(ServerState, sock, receiverId, roomId),
                  Op("webrtc-renegotiate", sock, roomId, JsUndefined, receiverId, JsUndefined))
    /\ UNCHANGED status

NextRelay ==
    \E sock \in Sockets :
        \/ Connection(sock)
        \/ JoinRoomValid(sock)
        \/ LeaveFirstRoom(sock)
        \/ Disconnect(sock)
        \/ InitiateConnection(sock)
        \/ WebrtcOffer(sock)
        \/ WebrtcAnswer(sock)
        \/ WebrtcIceCandidate(sock)
        \/ WebrtcRenegotiate(sock)

SpecRelay == Init /\ [][NextRelay]_vars

(***************************************************************************)
(* The registry with the member listing: the first room id or the socket's *)
(* own id, one display name.                                               *)
(***************************************************************************)
GetRoomUsers(sock) ==
    /\ status[sock] = "connected"
    /\ \E roomId \in FirstRoomIds(sock) \cup {JsUndefined} :
          Handled(GetRoomUsersHandler(ServerState, sock, roomId),
                  Op("get-room-users", sock, roomId, JsUndefined, JsUndefined, JsUndefined))
    /\ UNCHANGED status

NextList ==
    \E sock \in Sockets :
        \/ Connection(sock)
        \/ JoinRoomValid(sock)
        \/ LeaveFirstRoom(sock)
        \/ Disconnect(sock)
        \/ GetRoomUsers(sock)

SpecList == Init /\ [][NextList]_vars

(***************************************************************************)
(* The clients' connection coordinators, with the events of the server     *)
(* reaching them in any order.                                             *)
(***************************************************************************)
NextCoord ==
    \E c \in Sockets :
        \/ SetupMedia(c)
        \/ OnUserJoined(c)
        \/ OnUserMediaReady(c)
        \/ OnRoomUsersResponse(c)
        \/ TimeoutFires(c)

SpecCoord == Init /\ [][NextCoord]_vars

(***************************************************************************)
(* The coordinator with the peers it learns of before its local media is   *)
(* ready.  Nothing emits get-room-users unless the announce timeout runs,  *)
(* so no room-users-response arrives.  The steps of the component itself   *)
(* are fair; the events of the peers are not.                              *)
(***************************************************************************)
NextDeferred ==
    \E c \in Sockets :
        \/ SetupMedia(c)
        \/ AnnounceEffect(c)
        \/ OnUserJoined(c)
        \/ OnUserMediaReady(c)
        \/ TimeoutFires(c)

SpecDeferred ==
    /\ Init /\ [][NextDeferred]_vars
    /\ \A c \in Sockets :
          /\ WF_vars(SetupMedia(c))
          /\ WF_vars(AnnounceEffect(c))
          /\ WF_vars(TimeoutFires(c))

(***************************************************************************)
(* The socket singleton under the calls of the pages.                      *)
(***************************************************************************)
NextSocket ==
    \/ \E k \in Callers : CallInitializeSocket(k) \/ CallReturns(k)
    \/ SocketCreated
    \/ SocketConnects
    \/ ConnectFailed
    \/ DisconnectSocket
    \/ SocketDrops

SpecSocket == Init /\ [][NextSocket]_vars

(***************************************************************************)
(* The registry with room ids a client is free to send: a generated id,    *)
(* its own socket id, or the socket id of another connection, which it     *)
(* knows from user-joined.                                                 *)
(***************************************************************************)
AnyRoomIds == {JsString(k) : k \in RoomKeys}

JoinAnyRoom(sock) == JoinRoomFrom(sock, AnyRoomIds \X {SomeName})

LeaveAnyRoom(sock) == LeaveRoomFrom(sock, AnyRoomIds \X {SomeName})

NextAudience ==
    \E sock \in Sockets :
        \/ Connection(sock)
        \/ JoinAnyRoom(sock)
        \/ LeaveAnyRoom(sock)
        \/ Disconnect(sock)

SpecAudience == Init /\ [][NextAudience]_vars

(***************************************************************************)
(* The negotiation between the clients.                                    *)
(***************************************************************************)
NextGlare ==
    \E pq \in Pairs :
        \/ RtcUserJoined(pq[1], pq[2])
        \/ NegotiationNeeded(pq[1], pq[2])
        \/ ResendOffer(pq[1], pq[2])
        \/ OnWebrtcOffer(pq[1], pq[2])
        \/ OnWebrtcAnswer(pq[1], pq[2])

SpecGlare == Init /\ [][NextGlare]_vars

(***************************************************************************)
(* The relay of offers together with the sessions of the clients: client c *)
(* handles the events the last server handler emitted to it.  The answer   *)
(* the offer handler emits is a webrtc-answer message to the server.       *)
(***************************************************************************)
\* c receives the i-th emitted event, a webrtc-offer
ReceiveWebrtcOfferAt(c, i) ==
    /\ status[c] = "connected"
    /\ out[i].ev = "webrtc-offer"
    /\ c \in out[i].to
    /\ LET senderId == out[i].userId
           done == HandleOffer(peerConnections[c][senderId], Offer(senderId, c, 1))
       IN  peerConnections' = [peerConnections EXCEPT ![c][senderId] = done.pc]
    /\ UNCHANGED <<wire, resendTimers, offersMade, glared, serverVars, coordVars, ctxVars, media, singleton>>

ReceiveWebrtcOffer(c) == \E i \in 1..Len(out) : ReceiveWebrtcOfferAt(c, i)

\* c receives the i-th emitted event, a user-left
ReceiveUserLeftAt(c, i) ==
    /\ status[c] = "connected"
    /\ out[i].ev = "user-left"
    /\ c \in out[i].to
    /\ peerConnections' = [peerConnections EXCEPT ![c][out[i].userId] = HandleUserLeft(@)]
    /\ UNCHANGED <<wire, resendTimers, offersMade, glared, serverVars, coordVars, ctxVars, media, singleton>>

ReceiveUserLeft(c) == \E i \in 1..Len(out) : ReceiveUserLeftAt(c, i)

NextSession ==
    \E sock \in Sockets :
        \/ Connection(sock)
        \/ JoinRoomValid(sock)
        \/ LeaveFirstRoom(sock)
        \/ Disconnect(sock)
        \/ WebrtcOffer(sock)
        \/ ReceiveWebrtcOffer(sock)
        \/ ReceiveUserLeft(sock)

SpecSession == Init /\ [][NextSession]_vars

(***************************************************************************)
(* The registry with the clients of src/lib/webrtc.ts: media set-up and    *)
(* the user-joined and user-left listeners.                                *)
(***************************************************************************)
NextCall ==
    \E sock \in Sockets :
        \/ Connection(sock)
        \/ JoinRoomValid(sock)
        \/ LeaveFirstRoom(sock)
        \/ Disconnect(sock)
        \/ InitLocalStream(sock)
        \/ InitializeWebRTC(sock)
        \/ SignalUserJoined(sock)
        \/ SignalUserLeft(sock)

SpecCall == Init /\ [][NextCall]_vars

(***************************************************************************)
(* The registry and the offer relay with the payload as the client emits   *)
(* it: an object with the fields, or nothing.                              *)
(***************************************************************************)
Field(payload, k) == IF payload = JsUndefined THEN JsUndefined ELSE payload.fields[k]

JoinPayloads(sock) ==
    {JsUndefined} \cup
        {Payload(<<in[1], in[2]>>) :
            in \in (FirstRoomIds(sock) \X {SomeName}) \cup InvalidInputs}

OfferPayloads(sock) ==
    {JsUndefined} \cup
        {Payload(<<offer, receiverId, SomeName, roomId>>) :
            offer \in BlobInputs, receiverId \in RelayReceiverIds,
            roomId \in RelayRoomIds(sock)}

JoinRoomEmit(sock) ==
    /\ status[sock] = "connected"
    /\ \E payload \in JoinPayloads(sock) :
          Handled(JoinRoomListener(ServerState, sock, payload),
                  Op("join-room", sock, Field(payload, 1), Field(payload, 2),
                     JsUndefined, JsUndefined))
    /\ UNCHANGED status

WebrtcOfferEmit(sock) ==
    /\ status[sock] = "connected"
    /\ \E payload \in OfferPayloads(sock) :
          Handled(WebrtcOfferListener(ServerState, sock, payload),
                  Op("webrtc-offer", sock, Field(payload, 4), Field(payload, 3),
                     Field(payload, 2), Field(payload, 1)))
    /\ UNCHANGED status

NextEmit ==
    \E sock \in Sockets :
        \/ Connection(sock)
        \/ JoinRoomEmit(sock)
        \/ LeaveFirstRoom(sock)
        \/ Disconnect(sock)
        \/ WebrtcOfferEmit(sock)

SpecEmit == Init /\ [][NextEmit]_vars

(***************************************************************************)
(* The media health monitor of one client.                                 *)
(***************************************************************************)
\* the local streams, their heartbeats and the session that sends them
NextLocalMedia ==
    \/ CallInitLocalStream
    \/ GetUserMediaResolved
    \/ ToggleVideo
    \/ ToggleAudio
    \/ Heartbeat(LocalStreams)
    \/ ExternalDisable(LocalStreams)
    \/ OnUserJoinedMedia
    \/ OnRenegotiateMedia

SpecLocalMedia == Init /\ [][NextLocalMedia]_vars

\* the remote stream of the peer and its heartbeat, with the toggles of the
\* local user
NextRemoteMedia ==
    \/ CallInitLocalStream
    \/ GetUserMediaResolved
    \/ ToggleVideo
    \/ ToggleAudio
    \/ OnUserJoinedMedia
    \/ OnTrack
    \/ Heartbeat({RemoteStream})
    \/ ExternalDisable({RemoteStream})
    \/ DelayedCheckFires
    \/ OnRemoteTrackEnded

SpecRemoteMedia == Init /\ [][NextRemoteMedia]_vars

(***************************************************************************)
(* The negotiation with peers that leave: an answer can arrive at a client *)
(* of either webrtc.ts after the session it answers has gone.              *)
(***************************************************************************)
NextAnswer ==
    \E pq \in Pairs :
        \/ RtcUserJoined(pq[1], pq[2])
        \/ NegotiationNeeded(pq[1], pq[2])
        \/ ResendOffer(pq[1], pq[2])
        \/ OnWebrtcOffer(pq[1], pq[2])
        \/ OnWebrtcAnswer(pq[1], pq[2])
        \/ OnWebrtcAnswerLib(pq[1], pq[2])
        \/ RtcUserLeft(pq[1], pq[2])

SpecAnswer == Init /\ [][NextAnswer]_vars

(***************************************************************************)
(* The negotiation with the ICE candidates of the connections.             *)
(***************************************************************************)
NextIce ==
    \E pq \in Pairs :
        \/ RtcUserJoined(pq[1], pq[2])
        \/ NegotiationNeeded(pq[1], pq[2])
        \/ ResendOffer(pq[1], pq[2])
        \/ OnWebrtcOffer(pq[1], pq[2])
        \/ OnWebrtcAnswer(pq[1], pq[2])
        \/ IceCandidateGenerated(pq[1], pq[2])
        \/ OnWebrtcIceCandidate(pq[1], pq[2])

SpecIce == Init /\ [][NextIce]_vars

(***************************************************************************)
(* The negotiation with connections that fail.                             *)
(***************************************************************************)
NextRecover ==
    \E pq \in Pairs :
        \/ RtcUserJoined(pq[1], pq[2])
        \/ NegotiationNeeded(pq[1], pq[2])
        \/ ResendOffer(pq[1], pq[2])
        \/ OnWebrtcOffer(pq[1], pq[2])
        \/ OnWebrtcAnswer(pq[1], pq[2])
        \/ RtcUserLeft(pq[1], pq[2])
        \/ ConnectionFailed(pq[1], pq[2])
        \/ ReconnectTimerFires(pq[1], pq[2])

SpecRecover == Init /\ [][NextRecover]_vars

(***************************************************************************)
(* Room registry claims.                                                   *)
(***************************************************************************)
JoinIsValid(op) ==
    /\ op.op = "join-room"
    /\ ~Falsy(op.roomId) /\ TypeofString(op.roomId)
    /\ ~Falsy(op.userName) /\ TypeofString(op.userName)

MembersOf(rs, r) == IF HasRoom(rs, r) THEN UserIds(RoomUsers(rs, r)) ELSE {}

IdsInOrder(users) == [i \in 1..Len(users) |-> users[i].id]

EventsOf(evs, ev) == {i \in 1..Len(evs) : evs[i].ev = ev}

\* C1: after any sequence of join-room, leave-room and disconnect events,
\* every connection id is in the member list of at most one room.
C1_AtMostOneRoom ==
    \A s \in Sockets : Cardinality(RoomsOf(rooms, s)) <= 1

\* C3: a join-room by a member of room R for R keeps the length and the
\* order of R's member ids and changes only that member's name.
C3_RejoinInPlace ==
    [][\A s \in Sockets, r \in RoomKeys :
          ( /\ JoinIsValid(lastOp') /\ lastOp'.sock = s /\ lastOp'.roomId.s = r
            /\ s \in MembersOf(rooms, r) )
          => /\ HasRoom(rooms', r)
             /\ IdsInOrder(RoomUsers(rooms', r)) = IdsInOrder(RoomUsers(rooms, r))
             /\ \A i \in 1..Len(RoomUsers(rooms, r)) :
                   RoomUsers(rooms, r)[i].id # s
                      => RoomUsers(rooms', r)[i] = RoomUsers(rooms, r)[i]
      ]_vars

\* C4: no room record with an empty member list exists after a handler
\* completes.
C4_NoEmptyRoom ==
    \A i \in 1..Len(rooms) : Len(rooms[i].users) > 0

\* C10: a valid join-room for R2 by a member of another room R1 removes it
\* from R1's member list and sends a user-left for it to R1's remaining
\* members before the user-joined for R2.
C10_LeavesPreviousRoom ==
    [][\A s \in Sockets, r1 \in RoomKeys, r2 \in RoomKeys :
          ( /\ JoinIsValid(lastOp') /\ lastOp'.sock = s /\ lastOp'.roomId.s = r2
            /\ r1 # r2
            /\ s \in MembersOf(rooms, r1) )
          => /\ s \notin MembersOf(rooms', r1)
             /\ \E i \in 1..Len(out'), j \in 1..Len(out') :
                   /\ i < j
                   /\ out'[i].ev = "user-left" /\ out'[i].userId = s
                   /\ out'[i].roomId = r1
                   /\ (MembersOf(rooms, r1) \ {s}) \subseteq out'[i].to
                   /\ out'[j].ev = "user-joined" /\ out'[j].roomId = r2
      ]_vars

\* C9: a successful join-room to R sends one user-joined with R's post-join
\* member list to every member of R, the joiner included, and one join-success
\* with the same list to the joiner only.
C9_JoinBroadcast ==
    JoinIsValid(lastOp) =>
        LET r == lastOp.roomId.s
            joined == EventsOf(out, "user-joined")
            acked  == EventsOf(out, "join-success")
        IN  /\ HasRoom(rooms, r)
            /\ Cardinality(joined) = 1 /\ Cardinality(acked) = 1
            /\ \A i \in joined :
                  /\ out[i].users = RoomUsers(rooms, r)
                  /\ lastOp.sock \in UserIds(out[i].users)
                  /\ UserIds(out[i].users) \subseteq out[i].to
            /\ \A i \in acked :
                  /\ out[i].users = RoomUsers(rooms, r)
                  /\ out[i].to = {lastOp.sock}

\* a join has just been handled in a room that has another member
C9_Witness ==
    /\ JoinIsValid(lastOp)
    /\ HasRoom(rooms, lastOp.roomId.s)
    /\ Len(RoomUsers(rooms, lastOp.roomId.s)) > 1

LeftEvents(evs, sock, r) ==
    {i \in 1..Len(evs) : evs[i].ev = "user-left" /\ evs[i].userId = sock
                            /\ evs[i].roomId = r}

\* C7: for a member of R, leave-room then disconnect and disconnect alone end
\* in the same registry and tracker, and each broadcasts exactly one
\* user-left for the member to R's remaining members.
C7_LeaveThenDisconnect ==
    \A s \in Sockets, r \in RoomKeys :
        (status[s] = "connected" /\ s \in MembersOf(rooms, r)) =>
            LET both  == DisconnectHandler(
                            LeaveRoomHandler(ServerState, s, JsString(r), SomeName), s)
                alone == DisconnectHandler(ServerState, s)
                rest  == MembersOf(rooms, r) \ {s}
            IN  /\ both.rooms = alone.rooms
                /\ both.tracker = alone.tracker
                /\ \A S \in {both, alone} :
                      /\ Cardinality(LeftEvents(S.out, s, r)) = 1
                      /\ \A i \in LeftEvents(S.out, s, r) :
                            /\ rest \subseteq S.out[i].to
                            /\ s \notin S.out[i].to
                            /\ UserIds(S.out[i].users) = rest

\* a connected member with a recorded readiness shares its room with another
\* member
C7_Witness ==
    \E s \in Sockets, r \in RoomKeys :
        /\ status[s] = "connected"
        /\ s \in MembersOf(rooms, r)
        /\ MembersOf(rooms, r) # {s}
        /\ TrackerKey(r, s) \in userMediaReadyTracker

(***************************************************************************)
(* Signaling relay claims.                                                 *)
(***************************************************************************)
RelayEvents ==
    {"webrtc-offer", "webrtc-answer", "webrtc-ice-candidate",
     "webrtc-renegotiate", "initiate-connection"}

\* C2: a forwarded webrtc-offer, webrtc-answer, webrtc-ice-candidate,
\* webrtc-renegotiate or initiate-connection is delivered only to sockets
\* that are members of the room named in the message.
C2_RelayTargetInRoom ==
    \A i \in 1..Len(out) :
        (out[i].ev \in RelayEvents /\ lastOp.op \in RelayEvents)
            => out[i].to \subseteq MembersOf(rooms, out[i].roomId)

(***************************************************************************)
(* Client claims.                                                          *)
(***************************************************************************)
\* C5: between two members with distinct ids that both have local media
\* ready, only the one with the smaller id sends initiate-connection toward
\* the other.
C5_OnlySmallerIdInitiates ==
    \A i \in 1..Len(sent) :
        ( /\ sent[i].ev = "initiate-connection"
          /\ sent[i].from # sent[i].userId
          /\ isLocalMediaReadyRef[sent[i].from]
          /\ isLocalMediaReadyRef[sent[i].userId] )
        => IdLess(sent[i].from, sent[i].userId)

\* the two sessions are stable and hold each other's descriptions
Connected(p, q) ==
    /\ peerConnections[p][q].signalingState = "stable"
    /\ peerConnections[q][p].signalingState = "stable"
    /\ peerConnections[p][q].localDescription # NoDesc
    /\ peerConnections[q][p].localDescription # NoDesc
    /\ peerConnections[p][q].remoteDescription = peerConnections[q][p].localDescription
    /\ peerConnections[q][p].remoteDescription = peerConnections[p][q].localDescription

\* nothing is in flight, no resend is pending and no negotiation is due
Quiescent ==
    /\ \A pq \in Pairs : wire[pq] = <<>>
    /\ resendTimers = {}
    /\ \A pq \in Pairs :
          ~(peerConnections[pq[1]][pq[2]].signalingState = "stable"
              /\ peerConnections[pq[1]][pq[2]].negotiationNeeded)

LeaveIsValid(op) ==
    /\ op.op = "leave-room"
    /\ ~Falsy(op.roomId) /\ TypeofString(op.roomId)
    /\ ~Falsy(op.userName) /\ TypeofString(op.userName)

C12_UserLeftCarriesName ==
    [][\A i \in 1..Len(out') :
          out'[i].ev = "user-left"
            => out'[i].userName = GetUserName(rooms, out'[i].userId, out'[i].roomId)
      ]_vars


\* C13: when the last member of a room leaves by leave-room the room record
\* is deleted, and a get-room-users for that room id that follows is answered
\* with an empty member list and no server-error.
C13_ListAfterLastLeave ==
    [][\A r \in RoomKeys :
          /\ ( /\ LeaveIsValid(lastOp') /\ lastOp'.roomId.s = r
               /\ MembersOf(rooms, r) = {lastOp'.sock} )
             => ~HasRoom(rooms', r)
          /\ ( /\ LeaveIsValid(lastOp) /\ lastOp.roomId.s = r
               /\ LeftEvents(out, lastOp.sock, r) # {}
               /\ ~HasRoom(rooms, r)
               /\ lastOp'.op = "get-room-users" /\ lastOp'.roomId = JsString(r) )
             => /\ Len(out') = 1
                /\ out'[1].ev = "room-users-response"
                /\ out'[1].users = <<>>
                /\ out'[1].to = {lastOp'.sock}
      ]_vars

\* the last member of a room has just left it by leave-room and can ask for
\* its members
C13_Witness ==
    /\ LeaveIsValid(lastOp)
    /\ LeftEvents(out, lastOp.sock, lastOp.roomId.s) # {}
    /\ ~HasRoom(rooms, lastOp.roomId.s)
    /\ status[lastOp.sock] = "connected"

RelayIsComplete(op) ==
    /\ op.op \in RelayEvents
    /\ ~Falsy(op.roomId) /\ ~Falsy(op.target)
    /\ op.op \in {"webrtc-offer", "webrtc-answer", "webrtc-ice-candidate"}
          => ~Falsy(op.payload)

\* C15: a relay message that names a room that does not exist, or a target
\* that is not a member of the room, is answered with one server-error to the
\* sender and nothing is forwarded.
C15_RelayRejects ==
    (RelayIsComplete(lastOp) /\ lastOp.target.s \notin MembersOf(rooms, lastOp.roomId.s))
        => /\ Len(out) = 1
           /\ out[1].ev = "server-error"
           /\ out[1].to = {lastOp.sock}


\* C16: the sender name forwarded with an offer, answer, ICE candidate or
\* renegotiation request of a room member is the member's name in the
\* registry, whatever senderName the client sent.
C16_SenderNameFromRegistry ==
    \A i \in 1..Len(out) :
        ( /\ out[i].ev \in RelayEvents \ {"initiate-connection"}
          /\ lastOp.op = out[i].ev
          /\ lastOp.sock \in MembersOf(rooms, out[i].roomId) )
        => out[i].userName = GetUserName(rooms, lastOp.sock, out[i].roomId)


(***************************************************************************)
(* Media-ready tracker claims.                                             *)
(***************************************************************************)
\* the user-media-ready events of sock for room r
ReadyEvents(evs, sock, r) ==
    {i \in 1..Len(evs) : evs[i].ev = "user-media-ready" /\ evs[i].userId = sock
                            /\ evs[i].roomId = r}

\* C17: while a socket stays a member of R its user-media-ready for R is
\* forwarded at most once: a forward happens only on a step that records the
\* (R, socket) key, once, and the key stays recorded as long as the socket
\* is a member of R.
C17_ReadyForwardedOnce ==
    [][\A s \in Sockets, r \in RoomKeys :
          /\ ReadyEvents(out', s, r) # {}
                => /\ Cardinality(ReadyEvents(out', s, r)) = 1
                   /\ TrackerKey(r, s) \notin userMediaReadyTracker
                   /\ TrackerKey(r, s) \in userMediaReadyTracker'
          /\ ( /\ TrackerKey(r, s) \in userMediaReadyTracker
               /\ s \in MembersOf(rooms, r) /\ s \in MembersOf(rooms', r) )
                => TrackerKey(r, s) \in userMediaReadyTracker'
      ]_vars

\* a member that shares its room has sent user-media-ready again and nothing
\* was emitted
C17_Witness ==
    /\ lastOp.op = "user-media-ready" /\ ~Falsy(lastOp.roomId)
    /\ lastOp.sock \in MembersOf(rooms, lastOp.roomId.s)
    /\ MembersOf(rooms, lastOp.roomId.s) # {lastOp.sock}
    /\ TrackerKey(lastOp.roomId.s, lastOp.sock) \in userMediaReadyTracker
    /\ out = <<>>


\* C18: after every handler, each key of the media-ready tracker names a
\* room and a socket that is a member of that room.
C18_TrackerNamesMembers ==
    \A s \in Sockets, r \in RoomKeys :
        TrackerKey(r, s) \in userMediaReadyTracker => s \in MembersOf(rooms, r)


(***************************************************************************)
(* Session claims.                                                         *)
(***************************************************************************)
HasSession(c, q) == peerConnections[c][q].signalingState # "absent"

\* q is a member of a room c is a member of
RoomMates(rs, c, q) == \E r \in RoomsOf(rs, c) : q \in MembersOf(rs, r)

\* C19: a client has a session only for members of its room: a user-left
\* removes the session of the peer it names, and no incoming offer creates a
\* session for a sender that is not a member of the receiver's room.
C19_SessionsOnlyForMembers ==
    [][\A c \in Sockets :
          /\ \A i \in 1..Len(out) :
                ReceiveUserLeftAt(c, i) => ~HasSession(c, out[i].userId)'
          /\ \A q \in Sockets :
                ~HasSession(c, q) /\ HasSession(c, q)' => RoomMates(rooms, c, q)]_vars


\* the number of offers c sent while it handled the i-th emitted event
OffersSent(c, i) == (CHOOSE r \in ReceiptsOf(c, i) : TRUE).offers

\* C20: when Y joins a room whose only member is X and both have set up
\* their local media, one user-joined with the member list X, Y goes to both,
\* and once both have handled it exactly one of them has sent an offer to
\* the other.
C20_OneFirstOffer ==
    \A X, Y \in Sockets :
        ( /\ X # Y
          /\ JoinIsValid(lastOp) /\ lastOp.sock = Y
          /\ IdsInOrder(RoomUsers(rooms, lastOp.roomId.s)) = <<X, Y>>
          /\ signalingEvents[X] /\ signalingEvents[Y] )
        => \E i \in EventsOf(out, "user-joined") :
              /\ {X, Y} \subseteq out[i].to
              /\ IdsInOrder(out[i].users) = <<X, Y>>
              /\ (ReceiptsOf(X, i) # {} /\ ReceiptsOf(Y, i) # {}
                     => OffersSent(X, i) + OffersSent(Y, i) = 1)


(***************************************************************************)
(* Error handling claims.                                                  *)
(***************************************************************************)
\* the last handler failed: its message was not well-formed
HandlerFailed ==
    \/ lastOp.op = "join-room" /\ ~JoinIsValid(lastOp)
    \/ lastOp.op = "webrtc-offer"
          /\ (Falsy(lastOp.roomId) \/ Falsy(lastOp.target) \/ Falsy(lastOp.payload))

\* C21: no exception escapes a handler, a payload-less message included;
\* every server-error goes to the connection whose message the handler
\* received and to no other, and a failed handler sends one.
C21_ErrorsScopedAndCaught ==
    /\ uncaught = ""
    /\ \A i \in EventsOf(out, "server-error") : out[i].to = {lastOp.sock}
    /\ HandlerFailed => EventsOf(out, "server-error") # {}


(***************************************************************************)
(* Media health monitor claims.                                            *)
(***************************************************************************)
\* the intended state of a track: what the user last toggled for a local
\* track, enabled for a remote one
IntendedEnabled(M, s, k) == IF s = RemoteStream THEN TRUE ELSE ShouldBeEnabled(M, k)

\* the live tracks of s that are disabled though intended enabled
DisabledExternally(M, s) ==
    {k \in Kinds : M.live[<<s, k>>] /\ ~M.enabled[<<s, k>>] /\ IntendedEnabled(M, s, k)}

Dispatched(M, ev) == Cardinality({i \in 1..Len(M.out) : M.out[i] = ev})

\* the step is a check of the running heartbeat of the active stream s
IsCheck(s) ==
    /\ media.heartbeat[s].running
    /\ StreamActive(media, s)
    /\ media' = CheckTracks(Media, s)

\* C22: a heartbeat check re-enables every live track that is disabled
\* though intended enabled and dispatches exactly one webrtc-tracks-changed
\* for it; a check that finds no such track dispatches none.
C22_OneNotificationPerDisable ==
    [][\A s \in StreamIds :
          IsCheck(s) =>
              /\ \A k \in DisabledExternally(media, s) : media'.enabled[<<s, k>>]
              /\ Dispatched(media', "webrtc-tracks-changed")
                    = (IF DisabledExternally(media, s) # {} THEN 1 ELSE 0)]_vars


(***************************************************************************)
(* Negotiation claims.                                                     *)
(***************************************************************************)
\* the step delivers to q the answer at the head of the channel from p
AnswerDelivered(p, q) ==
    /\ wire[<<p, q>>] # <<>>
    /\ Head(wire[<<p, q>>]).type = "answer"
    /\ wire'[<<p, q>>] = Tail(wire[<<p, q>>])

CandidateDelivered(p, q) ==
    /\ wire[<<p, q>>] # <<>>
    /\ Head(wire[<<p, q>>]).type = "candidate"
    /\ wire'[<<p, q>>] = Tail(wire[<<p, q>>])

FailureReported(p, q) ==
    /\ ReconnectTimer(p, q) \notin resendTimers
    /\ ReconnectTimer(p, q) \in resendTimers'

\* this step is the reconnect callback of p for q
BackoffElapsed(p, q) ==
    /\ ReconnectTimer(p, q) \in resendTimers
    /\ ReconnectTimer(p, q) \notin resendTimers'

OfferRejected(p, q) ==
    /\ wire[<<p, q>>] # <<>>
    /\ Head(wire[<<p, q>>]).type = "offer"
    /\ wire'[<<p, q>>] = Tail(wire[<<p, q>>])
    /\ wire'[<<q, p>>] = wire[<<q, p>>]

SessionOrOfferCreated == OnUserJoinedMedia \/ OnRenegotiateMedia

\* C27: creating a session or an offer leaves the enabled flag of every
\* local track as it was, so a track the user switched off stays off.
C27_SessionsLeaveTracksAlone ==
    [][SessionOrOfferCreated =>
          \A t \in LocalStreams \X Kinds : media'.enabled[t] = media.enabled[t]]_vars


(***************************************************************************)
(* The heartbeat of the remote stream.                                     *)
(***************************************************************************)
\* C28: after a check of the remote stream's heartbeat every live remote
\* track is enabled, whatever audioDisabled and videoDisabled are.
C28_RemoteReenabledAlways ==
    [][IsCheck(RemoteStream) =>
          \A k \in Kinds :
              media.live[<<RemoteStream, k>>] => media'.enabled[<<RemoteStream, k>>]]_vars


(***************************************************************************)
(* Restart of the local stream by its heartbeat.                           *)
(***************************************************************************)
\* this step is the getUserMedia of a restart resolving: the heartbeat of a
\* local stream asked for it and the client has a new local stream
Reacquired ==
    /\ \E s \in LocalStreams :
          /\ MediaTimer("getUserMedia", s) \in media.timers
          /\ MediaTimer("getUserMedia", s) \notin media'.timers
    /\ media'.localStream # media.localStream

\* C29: once the heartbeat has re-acquired the local stream, the session
\* sends the tracks of the new stream, which are live, and not those of
\* the stopped one.
C29_SessionsSendNewStream ==
    [][(Reacquired /\ media.session) =>
          /\ media'.senders = media'.localStream
          /\ \A k \in Kinds : media'.live[<<media'.senders, k>>]]_vars


(***************************************************************************)
(* A remote stream that stays unhealthy.                                   *)
(***************************************************************************)
\* C30: a check of the remote stream's heartbeat that finds it unhealthy
\* for more than RestartAfter checks in a row emits webrtc-renegotiate and
\* starts no acquisition of the local stream.
C30_RemoteUnhealthyRenegotiates ==
    [][(IsCheck(RemoteStream) /\ media'.heartbeat[RemoteStream].failureCount > RestartAfter) =>
          /\ Dispatched(media', "webrtc-renegotiate") >= 1
          /\ media'.timers = media.timers
          /\ media'.live = media.live]_vars


(***************************************************************************)
(* Peers a client learns of before its local media is ready.               *)
(***************************************************************************)
\* c learnt of user while its local media was not ready: the listener
\* connectWhenReady for user is registered and waits
Deferred(c, user) == ~isLocalMediaReadyRef[c] /\ user \in pendingEventListeners[c]

\* c has an attempt toward user under way: a timeout that emits
\* initiate-connection is pending, or the last step emitted it
Attempting(c, user) ==
    \/ \E t \in timeouts[c] : t.user = user /\ t.kind # "announce"
    \/ \E i \in 1..Len(sent) :
          sent[i] = Message("initiate-connection", c, user)

\* C31: a client that learnt of a peer before its own local media was ready
\* makes a connection attempt toward that peer once the media is ready
\* (stated for the pairs in which the tie-break lets the client initiate).
C31_DeferredPeerIsAttempted ==
    \A c \in Sockets : \A user \in Sockets \ {c} :
        IdLess(c, user) => (Deferred(c, user) ~> Attempting(c, user))


(***************************************************************************)
(* Retransmission of offers.                                               *)
(***************************************************************************)
\* this step sends again the offer o, whose resend callback was pending
Retransmitted(o) ==
    /\ o \in resendTimers
    /\ wire'[<<o.from, o.to>>] = Append(wire[<<o.from, o.to>>], o)

CallsOf(n) == {k \in Callers : singleton.calls[k].attempt = n}

\* every waiting call holds the promise of the attempt in flight, an attempt
\* has created at most one socket, and the calls an attempt has settled got
\* one and the same result: the socket it created, or its failure
AttemptsAreShared ==
    /\ \A k \in Callers :
          singleton.calls[k].state = "waiting" =>
              /\ singleton.connectPromise # NoPromise
              /\ singleton.calls[k].attempt = singleton.connectPromise
    /\ \A n \in 1..MaxAttempts :
          /\ Cardinality(singleton.created[n]) <= 1
          /\ \A k \in CallsOf(n) :
                singleton.calls[k].state = "done" =>
                    /\ singleton.calls[k].got \in singleton.created[n] \cup {Failed}
                    /\ \A j \in CallsOf(n) :
                          singleton.calls[j].state = "done" =>
                              singleton.calls[j].got = singleton.calls[k].got

\* this step is a call by k made while the module holds a connected socket
CalledWhileConnected(k) ==
    /\ singleton.calls[k].state = "idle"
    /\ singleton'.calls[k].state # "idle"
    /\ singleton.socket \in singleton.connected

\* C33: the calls made while an attempt is in flight share that attempt and
\* its result, an attempt creates at most one socket, and a call made while
\* a connected socket exists returns that socket and creates nothing.
C33_OneAttemptShared ==
    /\ []AttemptsAreShared
    /\ [][\A k \in Callers :
             CalledWhileConnected(k) =>
                 /\ singleton'.calls[k] = Done(NoPromise, singleton.socket)
                 /\ singleton'.sockets = singleton.sockets
                 /\ singleton'.attempts = singleton.attempts]_vars

\* both pages called during one attempt and both got the socket it created
C33_Witness ==
    \E n \in 1..MaxAttempts :
        /\ CallsOf(n) = Callers
        /\ \A k \in Callers :
              /\ singleton.calls[k].state = "done"
              /\ singleton.calls[k].got \in singleton.created[n]


(***************************************************************************)
(* Joining the room one is in.                                             *)
(***************************************************************************)
\* C34: a join-room by a member of the room it names sends no user-left
\* for that member to another member of the room.
C34_RejoinSendsNoUserLeft ==
    [][\A s \in Sockets, r \in RoomKeys :
          ( /\ JoinIsValid(lastOp') /\ lastOp'.sock = s /\ lastOp'.roomId.s = r
            /\ s \in MembersOf(rooms, r) )
          => \A i \in EventsOf(out', "user-left") :
                 out'[i].userId = s => out'[i].to \ {s} = {}]_vars


(***************************************************************************)
(* Tracks the user switched off.                                           *)
(***************************************************************************)
\* every track of the local stream s is live and is enabled exactly when
\* the user's toggle says so
AsToggled(M, s) ==
    /\ s = M.localStream
    /\ \A k \in Kinds :
          M.live[<<s, k>>] /\ M.enabled[<<s, k>>] = ShouldBeEnabled(M, k)

\* C35: a check of the local stream whose tracks are live and as the user
\* toggled them counts no failure and does not stop or re-acquire the
\* stream.
C35_ToggledOffIsHealthy ==
    [][\A s \in LocalStreams :
          (IsCheck(s) /\ AsToggled(media, s)) =>
              /\ media'.heartbeat[s].failureCount = 0
              /\ media'.live = media.live
              /\ media'.timers = media.timers]_vars


(***************************************************************************)
(* The room-wide announcement of media readiness.                          *)
(***************************************************************************)
\* op is a user-media-ready of s for room r with no target
RoomWideReady(op, s, r) ==
    /\ op.op = "user-media-ready" /\ op.sock = s
    /\ Falsy(op.target)
    /\ ~Falsy(op.roomId) /\ op.roomId.s = r

\* the last handler was a user-media-ready of s addressed to one peer, and
\* it was processed: the peer was sent the notice
TargetedReadyProcessed(s, r) ==
    /\ lastOp.op = "user-media-ready" /\ lastOp.sock = s
    /\ ~Falsy(lastOp.target)
    /\ ~Falsy(lastOp.roomId) /\ lastOp.roomId.s = r
    /\ \E i \in EventsOf(out, "user-media-ready") : out[i].userId = s

\* C36: a room-wide user-media-ready of a member of r that is its first
\* announcement in this membership, or that follows its announcement to
\* one peer, sends the notice to every other member of r.
C36_RoomWideReadyReachesAll ==
    [][\A s \in Sockets, r \in RoomKeys :
          ( /\ RoomWideReady(lastOp', s, r)
            /\ s \in MembersOf(rooms, r)
            /\ \/ TrackerKey(r, s) \notin userMediaReadyTracker
               \/ TargetedReadyProcessed(s, r) )
          => \A m \in MembersOf(rooms, r) \ {s} :
                 \E i \in EventsOf(out', "user-media-ready") :
                     out'[i].userId = s /\ m \in out'[i].to]_vars


(***************************************************************************)
(* The registry and the Socket.IO rooms.                                   *)
(***************************************************************************)
\* C37: after every handler, the sockets that get the broadcasts of a room
\* of the registry are the members the registry lists for it.
C37_AudienceIsMembership ==
    \A r \in RoomKeys :
        HasRoom(rooms, r) => InRoom(socketRooms, r) = MembersOf(rooms, r)


====
